---- MODULE Spec2Model ----
(***************************************************************************)
(* A model of the prompt-enhancement pipeline of perfect-prompt-mcp:       *)
(* OpenRouterClient (sanitizeInput, detectPromptStructure, makeRequest,    *)
(* the 429 retry of enhancePrompt, processThinkingModelResponse and        *)
(* cleanResponse).                                                         *)
(*                                                                         *)
(* JavaScript strings are TLA+ strings; TLC evaluates Len, SubSeq and \o   *)
(* on them, so a character is a string of length one and the regular       *)
(* expressions of the source are matched character by character.           *)
(***************************************************************************)
EXTENDS Integers, Sequences, FiniteSets, TLC

(***************************************************************************)
(* Characters and character classes                                        *)
(***************************************************************************)

\* The character of s at (1-based) position i, "" outside the string.
Ch(s, i) == IF i >= 1 /\ i <= Len(s) THEN SubSeq(s, i, i) ELSE ""

Chars(s) == { SubSeq(s, i, i) : i \in 1..Len(s) }

\* TLA+ strings are ASCII. LS is the model's code for U+2028 LINE SEPARATOR
\* (a regex line terminator and white space that JSON allows raw inside a
\* string); the form feed itself does not occur in the model's alphabet.
LS == "\f"

UpperAlpha == "ABCDEFGHIJKLMNOPQRSTUVWXYZ"
LowerAlpha == "abcdefghijklmnopqrstuvwxyz"
DigitChars == Chars("0123456789")
NonZeroDigitChars == Chars("123456789")
HexChars == Chars("0123456789abcdefABCDEF")

\* \w of a JavaScript regular expression
WordChars == Chars(UpperAlpha) \cup Chars(LowerAlpha) \cup DigitChars \cup {"_"}

\* \s of a JavaScript regular expression and the characters String.trim
\* removes, as far as the model's alphabet has them
WhiteSpace == {" ", "\t", "\n", "\r", LS}

\* the characters after which ^ and before which $ match under the m flag,
\* and which . does not match
LineTerminators == {"\n", "\r", LS}

\* the i flag: two characters match when their canonical (upper case)
\* forms are equal
CanonMap == [c \in Chars(LowerAlpha) |->
               Ch(UpperAlpha, CHOOSE i \in 1..Len(LowerAlpha) : Ch(LowerAlpha, i) = c)]

Canon(c) == IF c \in DOMAIN CanonMap THEN CanonMap[c] ELSE c

StartsWithAt(s, i, lit) ==
    /\ i >= 1
    /\ i + Len(lit) - 1 <= Len(s)
    /\ SubSeq(s, i, i + Len(lit) - 1) = lit

StartsWithAtCI(s, i, lit) ==
    /\ i >= 1
    /\ i + Len(lit) - 1 <= Len(s)
    /\ \A k \in 1..Len(lit) : Canon(Ch(s, i + k - 1)) = Canon(Ch(lit, k))

Min(S) == CHOOSE k \in S : \A m \in S : k <= m

\* String.prototype.replace(re, by) for a regular expression with the g flag
\* whose matches are never empty, from position i of s on: MatchEnd(s, k) is
\* the position after the match of re that starts at k, 0 when re does not
\* match there. The scan goes left to right over the original text: each
\* match is replaced and the search goes on after it.
RECURSIVE ReplaceAll(_, _, _, _)
ReplaceAll(s, i, MatchEnd(_, _), by) ==
    LET hits == { k \in i..Len(s) : MatchEnd(s, k) # 0 }
    IN  IF hits = {} THEN SubSeq(s, i, Len(s))
        ELSE SubSeq(s, i, Min(hits) - 1) \o by
                 \o ReplaceAll(s, MatchEnd(s, Min(hits)), MatchEnd, by)

\* The first position k >= i where lit starts (compared literally, or under
\* the i flag), 0 when there is none.
IndexOf(s, lit, i, ci) ==
    LET hits == { k \in i..(Len(s) - Len(lit) + 1) :
                    IF ci THEN StartsWithAtCI(s, k, lit) ELSE StartsWithAt(s, k, lit) }
    IN  IF hits = {} THEN 0 ELSE Min(hits)

\* F(v), with v evaluated once and then passed on as a value
Let(v, F(_)) == CHOOSE r \in { F(x) : x \in {v} } : TRUE

\* The position after the maximal run of characters of class cls that
\* starts at i (i itself when the run is empty): a greedy cls*.
RECURSIVE RunEnd(_, _, _)
RunEnd(s, i, cls) == IF Ch(s, i) \in cls THEN RunEnd(s, i + 1, cls) ELSE i

Drop(s, i) == SubSeq(s, i, Len(s))

\* String.prototype.trim
RECURSIVE LastNonWs(_, _)
LastNonWs(s, i) == IF i >= 1 /\ Ch(s, i) \in WhiteSpace THEN LastNonWs(s, i - 1) ELSE i

Trim(s) == SubSeq(s, RunEnd(s, 1, WhiteSpace), LastNonWs(s, Len(s)))

(***************************************************************************)
(* JSON.parse, as a recognizer: does the text parse as one JSON value?     *)
(* Each Json* operator takes the position where a construct starts and     *)
(* returns the position after it, or 0 when the text does not parse.       *)
(***************************************************************************)

JsonWhiteSpace == {" ", "\t", "\n", "\r"}

\* the control characters (below U+0020) of the model's alphabet, which a
\* JSON string may not hold raw
ControlChars == {"\t", "\n", "\r"}

SimpleEscapes == Chars("\"\\/bfnrt")

RECURSIVE JsonStringBody(_, _)
JsonStringBody(s, i) ==
    LET c == Ch(s, i)
    IN  CASE c = "" -> 0
          [] c = "\"" -> i + 1
          [] c = "\\" ->
               IF Ch(s, i + 1) \in SimpleEscapes
               THEN JsonStringBody(s, i + 2)
               ELSE IF Ch(s, i + 1) = "u" /\ \A k \in 2..5 : Ch(s, i + k) \in HexChars
                    THEN JsonStringBody(s, i + 6)
                    ELSE 0
          [] c \in ControlChars -> 0
          [] OTHER -> JsonStringBody(s, i + 1)

JsonString(s, i) == IF Ch(s, i) = "\"" THEN JsonStringBody(s, i + 1) ELSE 0

JsonNumber(s, i) ==
    LET a == IF Ch(s, i) = "-" THEN i + 1 ELSE i
        b == IF Ch(s, a) = "0" THEN a + 1
             ELSE IF Ch(s, a) \in NonZeroDigitChars THEN RunEnd(s, a, DigitChars)
             ELSE 0
        c == IF b # 0 /\ Ch(s, b) = "."
             THEN (IF Ch(s, b + 1) \in DigitChars THEN RunEnd(s, b + 1, DigitChars) ELSE 0)
             ELSE b
        e == IF c # 0 /\ Ch(s, c) \in {"e", "E"}
             THEN LET d == IF Ch(s, c + 1) \in {"+", "-"} THEN c + 2 ELSE c + 1
                  IN  IF Ch(s, d) \in DigitChars THEN RunEnd(s, d, DigitChars) ELSE 0
             ELSE c
    IN  e

JsonLiteral(s, i, lit) == IF StartsWithAt(s, i, lit) THEN i + Len(lit) ELSE 0

RECURSIVE JsonValue(_, _)
RECURSIVE JsonElements(_, _)
RECURSIVE JsonMembers(_, _)

JsonValue(s, i) ==
    LET c == Ch(s, i)
    IN  CASE c = "\"" -> JsonString(s, i)
          [] c = "[" ->
               LET j == RunEnd(s, i + 1, JsonWhiteSpace)
               IN  IF Ch(s, j) = "]" THEN j + 1 ELSE JsonElements(s, j)
          [] c = "{" ->
               LET j == RunEnd(s, i + 1, JsonWhiteSpace)
               IN  IF Ch(s, j) = "}" THEN j + 1 ELSE JsonMembers(s, j)
          [] c = "t" -> JsonLiteral(s, i, "true")
          [] c = "f" -> JsonLiteral(s, i, "false")
          [] c = "n" -> JsonLiteral(s, i, "null")
          [] c = "-" \/ c \in DigitChars -> JsonNumber(s, i)
          [] OTHER -> 0

\* value (ws , ws value)* ws ]
JsonElements(s, i) ==
    LET v == JsonValue(s, i)
        k == RunEnd(s, v, JsonWhiteSpace)
    IN  IF v = 0 THEN 0
        ELSE IF Ch(s, k) = "," THEN JsonElements(s, RunEnd(s, k + 1, JsonWhiteSpace))
        ELSE IF Ch(s, k) = "]" THEN k + 1
        ELSE 0

\* string ws : ws value (ws , ws string ws : ws value)* ws }
JsonMembers(s, i) ==
    LET n == JsonString(s, i)
        c == RunEnd(s, n, JsonWhiteSpace)
        v == JsonValue(s, RunEnd(s, c + 1, JsonWhiteSpace))
        k == RunEnd(s, v, JsonWhiteSpace)
    IN  IF n = 0 \/ Ch(s, c) # ":" \/ v = 0 THEN 0
        ELSE IF Ch(s, k) = "," THEN JsonMembers(s, RunEnd(s, k + 1, JsonWhiteSpace))
        ELSE IF Ch(s, k) = "}" THEN k + 1
        ELSE 0

\* JSON.parse(text) returns (TRUE) or throws a SyntaxError (FALSE)
JsonParses(s) ==
    LET v == JsonValue(s, RunEnd(s, 1, JsonWhiteSpace))
    IN  v # 0 /\ RunEnd(s, v, JsonWhiteSpace) = Len(s) + 1

(***************************************************************************)
(* detectPromptStructure                                                   *)
(***************************************************************************)

\* <\w+> at i: the position after the tag, 0 when there is none
OpenTagEnd(s, i) ==
    LET e == RunEnd(s, i + 1, WordChars)
    IN  IF Ch(s, i) = "<" /\ e > i + 1 /\ Ch(s, e) = ">" THEN e + 1 ELSE 0

\* <\/\w+> at i
CloseTagAt(s, i) ==
    LET e == RunEnd(s, i + 2, WordChars)
    IN  StartsWithAt(s, i, "</") /\ e > i + 2 /\ Ch(s, e) = ">"

\* /<\w+>[\s\S]*<\/\w+>/.test(prompt)
MatchesXml(s) ==
    \E i \in 1..Len(s) :
        /\ OpenTagEnd(s, i) # 0
        /\ \E k \in OpenTagEnd(s, i)..Len(s) : CloseTagAt(s, k)

\* ^ under the m flag
LineStart(s, i) == i = 1 \/ Ch(s, i - 1) \in LineTerminators

\* . (any character but a line terminator) at i
AnyCharAt(s, i) == i <= Len(s) /\ Ch(s, i) \notin LineTerminators

\* /^#+ .+$/m.test(prompt) || /^[-*] .+$/m.test(prompt)
MatchesMarkdown(s) ==
    \/ \E i \in 1..Len(s) :
         LET e == RunEnd(s, i, {"#"})
         IN  LineStart(s, i) /\ e > i /\ Ch(s, e) = " " /\ AnyCharAt(s, e + 1)
    \/ \E i \in 1..Len(s) :
         LineStart(s, i) /\ Ch(s, i) \in {"-", "*"} /\ Ch(s, i + 1) = " " /\ AnyCharAt(s, i + 2)

RoleMarkers == {"You are", "System:", "User:", "Assistant:"}

\* a variant without the m flag: ^ matches at the start of the text only
MatchesRole_NoMultiline(s) == \E m \in RoleMarkers : StartsWithAtCI(s, 1, m)

\* /^(You are|System:|User:|Assistant:)/im.test(prompt)
MatchesRole(s) ==
    \E i \in 1..Len(s) : LineStart(s, i) /\ \E m \in RoleMarkers : StartsWithAtCI(s, i, m)

\* a variant that tests the Markdown rule before the JSON rule
detectPromptStructure_MarkdownFirst(prompt) ==
    IF MatchesXml(prompt) THEN [type |-> "xml", preserveFormat |-> TRUE]
    ELSE IF MatchesMarkdown(prompt) THEN [type |-> "markdown", preserveFormat |-> TRUE]
    ELSE IF JsonParses(prompt) THEN [type |-> "json", preserveFormat |-> TRUE]
    ELSE IF MatchesRole(prompt) THEN [type |-> "role-based", preserveFormat |-> TRUE]
    ELSE [type |-> "plain", preserveFormat |-> FALSE]

detectPromptStructure(prompt) ==
    IF MatchesXml(prompt) THEN [type |-> "xml", preserveFormat |-> TRUE]
    ELSE IF JsonParses(prompt) THEN [type |-> "json", preserveFormat |-> TRUE]
    ELSE IF MatchesMarkdown(prompt) THEN [type |-> "markdown", preserveFormat |-> TRUE]
    ELSE IF MatchesRole(prompt) THEN [type |-> "role-based", preserveFormat |-> TRUE]
    ELSE [type |-> "plain", preserveFormat |-> FALSE]

(***************************************************************************)
(* sanitizeInput                                                           *)
(***************************************************************************)

\* The first position k >= i where the one character c stands, 0 if none.
IndexOfChar(s, c, i) == IndexOf(s, c, i, FALSE)

\* /<script[^>]*>[\s\S]*?<\/script>/gi at i: the position after the match,
\* 0 when it does not match at i. [^>]* ends at the first ">", the lazy
\* [\s\S]*? at the first "</script>" after it.
ScriptMatchEnd(s, i) ==
    IF StartsWithAtCI(s, i, "<script")
    THEN LET g == IndexOfChar(s, ">", i + Len("<script"))
             c == IndexOf(s, "</script>", g + 1, TRUE)
         IN  IF g = 0 \/ c = 0 THEN 0 ELSE c + Len("</script>")
    ELSE 0

\* variant: closing tags are not matched
TagMatchEnd_OpenOnly(s, i) ==
    IF Ch(s, i) = "<" /\ Ch(s, i + 1) # "/"
    THEN LET g == IndexOfChar(s, ">", i + 1) IN IF g = 0 THEN 0 ELSE g + 1
    ELSE 0

\* a variant that takes a token only when a word character follows its "<"
TagMatchEnd_WordTag(s, i) ==
    IF Ch(s, i) = "<" /\ Ch(s, i + 1) \in WordChars
    THEN LET g == IndexOfChar(s, ">", i + 1) IN IF g = 0 THEN 0 ELSE g + 1
    ELSE 0

\* /<[^>]*>/g at i
TagMatchEnd(s, i) ==
    IF Ch(s, i) = "<"
    THEN LET g == IndexOfChar(s, ">", i + 1) IN IF g = 0 THEN 0 ELSE g + 1
    ELSE 0

sanitizeInput(input) ==
    IF detectPromptStructure(input).type = "xml"
    THEN ReplaceAll(input, 1, ScriptMatchEnd, "")
    ELSE ReplaceAll(input, 1, TagMatchEnd, "")

(***************************************************************************)
(* processThinkingModelResponse                                            *)
(***************************************************************************)

ThinkingOpen == "<thinking>"
ThinkingClose == "</thinking>"

\* /<thinking>[\s\S]*?<\/thinking>/g at i: the position after the match
\* (the lazy body ends at the first closing marker), 0 when no match
ThinkingMatchEnd(s, i) ==
    IF StartsWithAt(s, i, ThinkingOpen)
    THEN LET c == IndexOf(s, ThinkingClose, i + Len(ThinkingOpen), FALSE)
         IN  IF c = 0 THEN 0 ELSE c + Len(ThinkingClose)
    ELSE 0

\* thinkingPattern.test(content)
HasThinking(s) == \E i \in 1..Len(s) : ThinkingMatchEnd(s, i) # 0

\* /\n{3,}/g at i: the position after the (greedy) run of newlines
NewlineRunEnd(s, i) ==
    LET e == RunEnd(s, i, {"\n"}) IN IF e - i >= 3 THEN e ELSE 0

processThinkingModelResponse(content) ==
    IF HasThinking(content)
    THEN Let(Trim(ReplaceAll(content, 1, ThinkingMatchEnd, "")), LAMBDA processed :
             ReplaceAll(processed, 1, NewlineRunEnd, "\n\n"))
    ELSE content

(***************************************************************************)
(* cleanResponse                                                           *)
(*                                                                         *)
(* A pattern is a sequence of elements: a literal, \s+, \s*, an optional   *)
(* character (c?) and [\w]*. In every pattern of the two lists a greedy    *)
(* element is followed by a character it cannot match, so matching         *)
(* greedily, without backtracking, is what the regex engine finds.         *)
(***************************************************************************)

\* The backquote, and the code fence of three. (SANY reads a backquote in a
\* string as the start of a quotation that ends at the next apostrophe, so
\* it is taken out of a string that closes the quotation.)
Backquote == SubSeq("`'", 1, 1)
Fence == Backquote \o Backquote \o Backquote

Lit(v) == [k |-> "lit", v |-> v]
Opt(v) == [k |-> "opt", v |-> v]
WsPlus == [k |-> "ws+", v |-> ""]
WsStar == [k |-> "ws*", v |-> ""]
WordStar == [k |-> "word*", v |-> ""]

Regex(pat, ci) == [pat |-> pat, ci |-> ci]

\* Elements n.. of re matched at position i of s: the position after the match, 0 if none.
RECURSIVE MatchFrom(_, _, _, _)
MatchFrom(s, i, re, n) ==
    IF n > Len(re.pat) THEN i
    ELSE LET e == re.pat[n]
         IN  CASE e.k = "lit" ->
                    IF (IF re.ci THEN StartsWithAtCI(s, i, e.v) ELSE StartsWithAt(s, i, e.v))
                    THEN MatchFrom(s, i + Len(e.v), re, n + 1)
                    ELSE 0
               [] e.k = "opt" ->
                    IF (IF re.ci THEN StartsWithAtCI(s, i, e.v) ELSE StartsWithAt(s, i, e.v))
                    THEN MatchFrom(s, i + 1, re, n + 1)
                    ELSE MatchFrom(s, i, re, n + 1)
               [] e.k = "ws+" ->
                    IF Ch(s, i) \in WhiteSpace
                    THEN MatchFrom(s, RunEnd(s, i, WhiteSpace), re, n + 1)
                    ELSE 0
               [] e.k = "ws*" -> MatchFrom(s, RunEnd(s, i, WhiteSpace), re, n + 1)
               [] e.k = "word*" -> MatchFrom(s, RunEnd(s, i, WordChars), re, n + 1)

unwantedPrefixes == <<
    \* /^Here\s+is\s+an?\s+enhanced\s+prompt:?\s*/i
    Regex(<<Lit("Here"), WsPlus, Lit("is"), WsPlus, Lit("a"), Opt("n"), WsPlus,
            Lit("enhanced"), WsPlus, Lit("prompt"), Opt(":"), WsStar>>, TRUE),
    \* /^Here\s+is\s+the\s+enhanced\s+prompt:?\s*/i
    Regex(<<Lit("Here"), WsPlus, Lit("is"), WsPlus, Lit("the"), WsPlus,
            Lit("enhanced"), WsPlus, Lit("prompt"), Opt(":"), WsStar>>, TRUE),
    \* /^Here's\s+the\s+enhanced\s+prompt:?\s*/i
    Regex(<<Lit("Here's"), WsPlus, Lit("the"), WsPlus,
            Lit("enhanced"), WsPlus, Lit("prompt"), Opt(":"), WsStar>>, TRUE),
    \* /^Enhanced\s+version:?\s*/i
    Regex(<<Lit("Enhanced"), WsPlus, Lit("version"), Opt(":"), WsStar>>, TRUE),
    \* /^Enhanced\s+prompt:?\s*/i
    Regex(<<Lit("Enhanced"), WsPlus, Lit("prompt"), Opt(":"), WsStar>>, TRUE),
    \* /^Improved\s+prompt:?\s*/i
    Regex(<<Lit("Improved"), WsPlus, Lit("prompt"), Opt(":"), WsStar>>, TRUE),
    \* /^FENCE[\w]*\s*/  (FENCE: three backquotes)
    Regex(<<Lit(Fence), WordStar, WsStar>>, FALSE),
    \* /^\*\*Enhanced\s+Prompt:?\*\*\s*/i
    Regex(<<Lit("**Enhanced"), WsPlus, Lit("Prompt"), Opt(":"), Lit("**"), WsStar>>, TRUE)
>>

unwantedSuffixes == <<
    \* /\s*FENCE\s*$/
    Regex(<<WsStar, Lit(Fence), WsStar>>, FALSE),
    \* /\s*This\s+enhanced\s+prompt\s+is\s+more\s+specific\s+and\s+detailed\.?\s*$/i
    Regex(<<WsStar, Lit("This"), WsPlus, Lit("enhanced"), WsPlus, Lit("prompt"), WsPlus,
            Lit("is"), WsPlus, Lit("more"), WsPlus, Lit("specific"), WsPlus, Lit("and"),
            WsPlus, Lit("detailed"), Opt("."), WsStar>>, TRUE),
    \* /\s*Hope\s+this\s+helps!?\s*$/i
    Regex(<<WsStar, Lit("Hope"), WsPlus, Lit("this"), WsPlus, Lit("helps"), Opt("!"),
            WsStar>>, TRUE)
>>

\* cleaned.replace(prefix, ''): the pattern is anchored (^, no m flag)
RemovePrefix(s, re) ==
    LET e == MatchFrom(s, 1, re, 1) IN IF e = 0 THEN s ELSE Drop(s, e)

\* cleaned.replace(suffix, ''): the leftmost match that reaches the end ($)
RemoveSuffix(s, re) ==
    LET starts == { i \in 1..(Len(s) + 1) : MatchFrom(s, i, re, 1) = Len(s) + 1 }
    IN  IF starts = {} THEN s
        ELSE SubSeq(s, 1, Min(starts) - 1)

\* for (const prefix of unwantedPrefixes) cleaned = cleaned.replace(prefix, ''),
\* from the n-th pattern on
RECURSIVE RemovePrefixes(_, _)
RemovePrefixes(s, n) ==
    IF n > Len(unwantedPrefixes) THEN s
    ELSE Let(RemovePrefix(s, unwantedPrefixes[n]), LAMBDA t : RemovePrefixes(t, n + 1))

\* for (const suffix of unwantedSuffixes) cleaned = cleaned.replace(suffix, ''),
\* from the n-th pattern on
RECURSIVE RemoveSuffixes(_, _)
RemoveSuffixes(s, n) ==
    IF n > Len(unwantedSuffixes) THEN s
    ELSE Let(RemoveSuffix(s, unwantedSuffixes[n]), LAMBDA t : RemoveSuffixes(t, n + 1))

\* how often the outer loop applies the prefix list: for (let i = 0; i < 3; i++)
PrefixPasses == 3

\* the outer loop from pass i on; one pass is the whole prefix list, then trim
RECURSIVE PrefixLoop(_, _)
PrefixLoop(s, i) ==
    IF i >= PrefixPasses THEN s
    ELSE Let(Trim(RemovePrefixes(s, 1)), LAMBDA t : PrefixLoop(t, i + 1))

cleanResponse(content) ==
    Let(PrefixLoop(Trim(content), 0), LAMBDA afterPrefixes :
        Let(Trim(RemoveSuffixes(afterPrefixes, 1)), LAMBDA cleaned :
            IF cleaned = "" THEN content ELSE cleaned))

\* const processed = this.processThinkingModelResponse(enhancedContent);
\* return this.cleanResponse(processed);
normalize(content) ==
    Let(processThinkingModelResponse(content), LAMBDA processed : cleanResponse(processed))

(***************************************************************************)
(* makeRequest and the helpers of enhancePrompt                            *)
(***************************************************************************)

API_URL == "https://openrouter.ai/api/v1/chat/completions"
DEFAULT_MODEL == "google/gemini-2.5-flash-preview-05-20"

\* The two templates, each cut to its first sentence.
SYSTEM_PROMPT ==
    "You are a prompt enhancement assistant. Your ONLY job is to rewrite prompts to be clearer, more specific, and more effective."
STRUCTURED_SYSTEM_PROMPT ==
    "You are a prompt enhancement assistant. Your ONLY job is to rewrite prompts while preserving their exact structure and format."

\* variant: an addendum that leaves the context out
buildContextualPrompt_NoContext(conversationContext) ==
    "\n\nCONTEXTUAL ENHANCEMENT MODE ACTIVATED\n\nCONVERSATION CONTEXT:\n"
        \o "\n\nBased on this conversation history, enhance the user's prompt to be more specific, contextually relevant, and aligned with their ongoing work."

\* the addendum, cut to its heading, the context and its last sentence
buildContextualPrompt(conversationContext) ==
    "\n\nCONTEXTUAL ENHANCEMENT MODE ACTIVATED\n\nCONVERSATION CONTEXT:\n"
        \o conversationContext
        \o "\n\nBased on this conversation history, enhance the user's prompt to be more specific, contextually relevant, and aligned with their ongoing work."

\* variant: the token estimate rounds down
calculateMaxTokens_Floor(prompt) ==
    LET promptTokens == Len(prompt) \div 4
        estimatedOutputTokens == promptTokens * 3
        atLeast == IF estimatedOutputTokens > 500 THEN estimatedOutputTokens ELSE 500
    IN  IF atLeast < 4000 THEN atLeast ELSE 4000

\* Math.min(Math.max(500, Math.ceil(prompt.length / 4) * 3), 4000)
calculateMaxTokens(prompt) ==
    LET promptTokens == (Len(prompt) + 3) \div 4
        estimatedOutputTokens == promptTokens * 3
        atLeast == IF estimatedOutputTokens > 500 THEN estimatedOutputTokens ELSE 500
    IN  IF atLeast < 4000 THEN atLeast ELSE 4000

\* variant: the template is chosen by the presence of a context
makeRequest_TemplateByContext(client, prompt, structure, conversationContext) ==
    LET template == IF conversationContext # ""
                    THEN STRUCTURED_SYSTEM_PROMPT
                    ELSE SYSTEM_PROMPT
        systemPrompt == IF conversationContext # ""
                        THEN template \o buildContextualPrompt(conversationContext)
                        ELSE template
    IN  [kind |-> "request",
         url |-> API_URL,
         authorization |-> "Bearer " \o client.apiKey,
         model |-> client.model,
         system |-> systemPrompt,
         user |-> prompt,
         max_tokens |-> calculateMaxTokens(prompt)]

\* The request makeRequest hands to fetch: the URL, the bearer credential
\* and the body's model, messages and max_tokens (the sampling parameters
\* are constants).
makeRequest(client, prompt, structure, conversationContext) ==
    LET template == IF structure.preserveFormat
                    THEN STRUCTURED_SYSTEM_PROMPT
                    ELSE SYSTEM_PROMPT
        systemPrompt == IF conversationContext # ""
                        THEN template \o buildContextualPrompt(conversationContext)
                        ELSE template
    IN  [kind |-> "request",
         url |-> API_URL,
         authorization |-> "Bearer " \o client.apiKey,
         model |-> client.model,
         system |-> systemPrompt,
         user |-> prompt,
         max_tokens |-> calculateMaxTokens(prompt)]

\* A header value as headers.get returns it: the string, or null when the
\* response has no such header.
NoHeader == [present |-> FALSE, value |-> ""]
Header(v) == [present |-> TRUE, value |-> v]

\* if (retryAfter): null and the empty string are falsy
Truthy(h) == h.present /\ h.value # ""

DigitValue(c) == CHOOSE d \in 0..9 : Ch("0123456789", d + 1) = c

\* the value of the decimal digits s[i..j-1]
RECURSIVE DigitsValue(_, _, _)
DigitsValue(s, i, j) ==
    IF j <= i THEN 0 ELSE DigitsValue(s, i, j - 1) * 10 + DigitValue(Ch(s, j - 1))

\* parseInt(string): leading white space, a sign, then the longest run of
\* decimal digits; NaN when there is no digit. (No header value of the model
\* starts with 0x, which parseInt reads as hexadecimal.)
parseInt(str) ==
    LET a == RunEnd(str, 1, WhiteSpace)
        b == IF Ch(str, a) \in {"+", "-"} THEN a + 1 ELSE a
        e == RunEnd(str, b, DigitChars)
    IN  IF e = b THEN [nan |-> TRUE, value |-> 0]
        ELSE [nan |-> FALSE,
              value |-> IF Ch(str, a) = "-" THEN 0 - DigitsValue(str, b, e)
                        ELSE DigitsValue(str, b, e)]

\* a variant that passes the header's seconds to delay as they are
retryDelay_Seconds(retryAfter) ==
    LET n == parseInt(retryAfter.value) IN [nan |-> n.nan, ms |-> n.value]

\* parseInt(retryAfter) * 1000, the argument of this.delay (NaN * 1000 is NaN)
retryDelay(retryAfter) ==
    LET n == parseInt(retryAfter.value) IN [nan |-> n.nan, ms |-> n.value * 1000]

\* response.ok
Ok(response) == response.status >= 200 /\ response.status <= 299

\* variant: the error names the status only, without the status text
ApiError_StatusOnly(response) ==
    [name |-> "Error",
     message |-> "API request failed: " \o ToString(response.status)]

\* new Error("API request failed: ${response.status} ${response.statusText}")
ApiError(response) ==
    [name |-> "Error",
     message |-> "API request failed: " \o ToString(response.status)
                     \o " " \o response.statusText]

JsError(name, message) == [name |-> name, message |-> message]

\* JavaScript values of a response body: null (or undefined), or a string
JsNull == [t |-> "null", v |-> ""]
JsString(v) == [t |-> "string", v |-> v]

(***************************************************************************)
(* State                                                                   *)
(***************************************************************************)

VARIABLES
    pc,                  \* where the caller and enhancePrompt stand
    client,              \* the OpenRouterClient: its apiKey and model
    prompt,              \* enhancePrompt's argument
    conversationContext, \* enhancePrompt's argument ("" when none is passed)
    sanitizedPrompt,     \* enhancePrompt's local
    structure,           \* enhancePrompt's local
    log,                 \* what the call did to the outside, in order: the
                         \* requests sent, the responses and bodies received,
                         \* the delay started
    result,              \* the text enhancePrompt returned
    error,               \* the error enhancePrompt (or the constructor) threw
    text,       \* the argument of a function under test
    npieces,    \* how many pieces text was built from
    out,        \* the value the function returned, NotCalled before the call
    phase,      \* "input" while the argument is built, then "called"
    messages,   \* the prior turns of a request whose context is built
    mode,       \* which server runs: "mcp", "web", "stdio" or "sse"
    env,        \* process.env.OPENROUTER_API_KEY, "" when it is not set
    shared,     \* the stdio server's field this.openRouterClient
    calls,      \* the enhancement requests of the server, one record each
    clients,    \* the clients list of the web servers: ids and responses
    now,        \* Date.now(), in milliseconds since the server started
    conns       \* the GET /sse connections made, in order: for each its
                \* client id, whether it is open, and the events written
                \* to it while it was open

callVars == <<pc, client, prompt, conversationContext, sanitizedPrompt, structure,
              log, result, error>>
fnVars == <<text, npieces, out, phase>>
srvVars == <<messages, mode, env, shared, calls>>
webVars == <<clients, now, conns>>
vars == <<callVars, fnVars, srvVars, webVars>>

NotCalled == [type |-> "none"]
NoClient == [apiKey |-> "", model |-> ""]
NoStructure == [type |-> "none", preserveFormat |-> FALSE]
NoResult == [returned |-> FALSE, text |-> ""]
NoError == [name |-> "", message |-> ""]

\* no call of enhancePrompt is modelled
CallIdle ==
    /\ pc = "off"
    /\ client = NoClient
    /\ prompt = ""
    /\ conversationContext = ""
    /\ sanitizedPrompt = ""
    /\ structure = NoStructure
    /\ log = <<>>
    /\ result = NoResult
    /\ error = NoError

\* no subscriber is modelled
WebIdle ==
    /\ clients = <<>>
    /\ now = 0
    /\ conns = <<>>

\* no server is modelled
SrvIdle ==
    /\ WebIdle
    /\ messages = <<>>
    /\ mode = "off"
    /\ env = ""
    /\ shared = NoClient
    /\ calls = <<>>

\* no function is under test
FnIdle ==
    /\ text = ""
    /\ npieces = 0
    /\ out = NotCalled
    /\ phase = "off"

(***************************************************************************)
(* One call of enhancePrompt on a fresh client. An action is the code      *)
(* between two awaits.                                                     *)
(***************************************************************************)

MaxRetryAfter == 2

ApiKeys == {"", "sk-or-key"}
\* "" is no model argument
Models == {"", "openai/gpt-4o-mini"}
Prompts == {"help me write better code",
            "<b>debug</b> this <error",
            "<task>fix<script>x</script></task>",
            "{\"role\": \"system\"}",
            "# Plan\n- step",
            "User: hi",
            "<b>User: hi"}
Contexts == {"", "user: we use React"}

StatusTexts == [s \in {200, 429, 503} |->
                  CASE s = 200 -> "OK"
                    [] s = 429 -> "Too Many Requests"
                    [] s = 503 -> "Service Unavailable"]

\* the Retry-After header of a response: none, empty, a number of seconds,
\* or a word
RetryAfterHeaders ==
    {NoHeader, Header(""), Header("soon")} \cup { Header(ToString(n)) : n \in 0..MaxRetryAfter }

Responses ==
    { [kind |-> "response", status |-> s, statusText |-> StatusTexts[s], retryAfter |-> h] :
        s \in DOMAIN StatusTexts, h \in RetryAfterHeaders }

Contents == {JsNull,
             JsString(""),
             JsString("Write clean code"),
             JsString("<thinking>plan</thinking>\n\nHere is the enhanced prompt: Actually do X"),
             JsString(Fence \o "json\n{}\n" \o Fence)}

\* what response.json() resolves to: an object without choices, or one
\* whose choices hold the message contents listed
Bodies ==
    {[kind |-> "body", hasChoices |-> FALSE, choices |-> <<>>],
     [kind |-> "body", hasChoices |-> TRUE, choices |-> <<>>]}
    \cup { [kind |-> "body", hasChoices |-> TRUE, choices |-> <<c>>] : c \in Contents }
    \cup { [kind |-> "body", hasChoices |-> TRUE,
            choices |-> <<JsString("Write clean code"), JsString("second choice")>>] }

Init ==
    /\ pc = "new"
    /\ client = NoClient
    /\ prompt = ""
    /\ conversationContext = ""
    /\ sanitizedPrompt = ""
    /\ structure = NoStructure
    /\ log = <<>>
    /\ result = NoResult
    /\ error = NoError
    /\ FnIdle
    /\ SrvIdle

Throw(e) ==
    /\ pc' = "thrown"
    /\ error' = e

\* new OpenRouterClient(apiKey, model)
Construct(apiKey, model) ==
    /\ pc = "new"
    /\ IF apiKey = ""
       THEN /\ Throw(JsError("Error", "API key is required"))
            /\ UNCHANGED client
       ELSE /\ client' = [apiKey |-> apiKey,
                          model |-> IF model # "" THEN model ELSE DEFAULT_MODEL]
            /\ pc' = "ready"
            /\ UNCHANGED error
    /\ UNCHANGED <<prompt, conversationContext, sanitizedPrompt, structure, log, result>>
    /\ UNCHANGED <<fnVars, srvVars, webVars>>

\* variant: the structure is detected on the raw prompt
Call_DetectRaw(p, ctx) ==
    /\ pc = "ready"
    /\ prompt' = p
    /\ conversationContext' = ctx
    /\ sanitizedPrompt' = sanitizeInput(p)
    /\ structure' = detectPromptStructure(p)
    /\ log' = <<makeRequest(client, sanitizedPrompt', structure', ctx)>>
    /\ pc' = "fetch1"
    /\ UNCHANGED <<client, result, error>>
    /\ UNCHANGED <<fnVars, srvVars, webVars>>

\* enhancePrompt(p, ctx) up to its first await: sanitize, detect, and the
\* first makeRequest
Call(p, ctx) ==
    /\ pc = "ready"
    /\ prompt' = p
    /\ conversationContext' = ctx
    /\ sanitizedPrompt' = sanitizeInput(p)
    /\ structure' = detectPromptStructure(sanitizedPrompt')
    /\ log' = <<makeRequest(client, sanitizedPrompt', structure', ctx)>>
    /\ pc' = "fetch1"
    /\ UNCHANGED <<client, result, error>>
    /\ UNCHANGED <<fnVars, srvVars, webVars>>

\* a variant that retries a 429 whether or not it carries Retry-After
FirstResponse_RetryAny429(r) ==
    /\ pc = "fetch1"
    /\ IF Ok(r)
       THEN /\ log' = Append(log, r)
            /\ pc' = "json"
            /\ UNCHANGED error
       ELSE IF r.status = 429
       THEN /\ log' = log \o <<r, [kind |-> "delay"] @@ retryDelay(r.retryAfter)>>
            /\ pc' = "delay"
            /\ UNCHANGED error
       ELSE /\ log' = Append(log, r)
            /\ Throw(ApiError(r))
    /\ UNCHANGED <<client, prompt, conversationContext, sanitizedPrompt, structure, result>>
    /\ UNCHANGED <<fnVars, srvVars, webVars>>

\* the first fetch resolves with response r: lines 52-71 up to the next await
FirstResponse(r) ==
    /\ pc = "fetch1"
    /\ IF Ok(r)
       THEN /\ log' = Append(log, r)
            /\ pc' = "json"
            /\ UNCHANGED error
       ELSE IF r.status = 429 /\ Truthy(r.retryAfter)
       THEN \* await this.delay(parseInt(retryAfter) * 1000)
            /\ log' = log \o <<r, [kind |-> "delay"] @@ retryDelay(r.retryAfter)>>
            /\ pc' = "delay"
            /\ UNCHANGED error
       ELSE /\ log' = Append(log, r)
            /\ Throw(ApiError(r))
    /\ UNCHANGED <<client, prompt, conversationContext, sanitizedPrompt, structure, result>>
    /\ UNCHANGED <<fnVars, srvVars, webVars>>

\* a variant whose retry is built from the raw prompt
DelayElapsed_RawPrompt ==
    /\ pc = "delay"
    /\ log' = Append(log, makeRequest(client, prompt, structure, conversationContext))
    /\ pc' = "fetch2"
    /\ UNCHANGED <<client, prompt, conversationContext, sanitizedPrompt, structure,
                   result, error>>
    /\ UNCHANGED <<fnVars, srvVars, webVars>>

\* the timer of delay fires: the second makeRequest
DelayElapsed ==
    /\ pc = "delay"
    /\ log' = Append(log, makeRequest(client, sanitizedPrompt, structure, conversationContext))
    /\ pc' = "fetch2"
    /\ UNCHANGED <<client, prompt, conversationContext, sanitizedPrompt, structure,
                   result, error>>
    /\ UNCHANGED <<fnVars, srvVars, webVars>>

\* a variant that handles the retry's response like the first response
RetryResponse_RetryAgain(r) ==
    /\ pc = "fetch2"
    /\ IF Ok(r)
       THEN /\ log' = Append(log, r)
            /\ pc' = "json"
            /\ UNCHANGED error
       ELSE IF r.status = 429 /\ Truthy(r.retryAfter)
       THEN /\ log' = log \o <<r, [kind |-> "delay"] @@ retryDelay(r.retryAfter)>>
            /\ pc' = "delay"
            /\ UNCHANGED error
       ELSE /\ log' = Append(log, r)
            /\ Throw(ApiError(r))
    /\ UNCHANGED <<client, prompt, conversationContext, sanitizedPrompt, structure, result>>
    /\ UNCHANGED <<fnVars, srvVars, webVars>>

\* the retry's fetch resolves with response r: lines 59-62
RetryResponse(r) ==
    /\ pc = "fetch2"
    /\ log' = Append(log, r)
    /\ IF Ok(r)
       THEN /\ pc' = "json"
            /\ UNCHANGED error
       ELSE Throw(ApiError(r))
    /\ UNCHANGED <<client, prompt, conversationContext, sanitizedPrompt, structure, result>>
    /\ UNCHANGED <<fnVars, srvVars, webVars>>

\* fetch rejects (the network fails): the catch block rethrows the TypeError
FetchRejects ==
    /\ pc \in {"fetch1", "fetch2"}
    /\ Throw(JsError("TypeError", "fetch failed"))
    /\ UNCHANGED <<client, prompt, conversationContext, sanitizedPrompt, structure,
                   log, result>>
    /\ UNCHANGED <<fnVars, srvVars, webVars>>

Return(t) ==
    /\ pc' = "returned"
    /\ result' = [returned |-> TRUE, text |-> t]
    /\ UNCHANGED error

\* a variant that returns an empty text when the body has no choice
JsonResolves_EmptyOnNoChoice(data) ==
    /\ pc = "json"
    /\ log' = Append(log, data)
    /\ IF ~data.hasChoices \/ Len(data.choices) = 0
       THEN Return("")
       ELSE IF data.choices[1].t # "string"
       THEN /\ Throw(JsError("TypeError", "Cannot read properties of null (reading 'trim')"))
            /\ UNCHANGED result
       ELSE Return(normalize(data.choices[1].v))
    /\ UNCHANGED <<client, prompt, conversationContext, sanitizedPrompt, structure>>
    /\ UNCHANGED <<fnVars, srvVars, webVars>>

\* a variant that tests only whether the body has a choices member
JsonResolves_NoLengthTest(data) ==
    /\ pc = "json"
    /\ log' = Append(log, data)
    /\ IF ~data.hasChoices
       THEN /\ Throw(JsError("Error", "No response from API"))
            /\ UNCHANGED result
       ELSE IF Len(data.choices) = 0
       THEN /\ Throw(JsError("TypeError", "Cannot read properties of undefined (reading 'message')"))
            /\ UNCHANGED result
       ELSE IF data.choices[1].t # "string"
       THEN /\ Throw(JsError("TypeError", "Cannot read properties of null (reading 'trim')"))
            /\ UNCHANGED result
       ELSE Return(normalize(data.choices[1].v))
    /\ UNCHANGED <<client, prompt, conversationContext, sanitizedPrompt, structure>>
    /\ UNCHANGED <<fnVars, srvVars, webVars>>

\* response.json() resolves with data: lines 72-80. A content that is no
\* string passes processThinkingModelResponse unchanged (test coerces it)
\* and makes cleanResponse throw at content.trim().
JsonResolves(data) ==
    /\ pc = "json"
    /\ log' = Append(log, data)
    /\ IF ~data.hasChoices \/ Len(data.choices) = 0
       THEN /\ Throw(JsError("Error", "No response from API"))
            /\ UNCHANGED result
       ELSE IF data.choices[1].t # "string"
       THEN /\ Throw(JsError("TypeError", "Cannot read properties of null (reading 'trim')"))
            /\ UNCHANGED result
       ELSE Return(normalize(data.choices[1].v))
    /\ UNCHANGED <<client, prompt, conversationContext, sanitizedPrompt, structure>>
    /\ UNCHANGED <<fnVars, srvVars, webVars>>

\* response.json() rejects (the body is no JSON): the SyntaxError is rethrown
JsonRejects ==
    /\ pc = "json"
    /\ Throw(JsError("SyntaxError", "Unexpected token in JSON"))
    /\ UNCHANGED <<client, prompt, conversationContext, sanitizedPrompt, structure,
                   log, result>>
    /\ UNCHANGED <<fnVars, srvVars, webVars>>

Next ==
    \/ \E k \in ApiKeys, m \in Models : Construct(k, m)
    \/ \E p \in Prompts, c \in Contexts : Call(p, c)
    \/ \E r \in Responses : FirstResponse(r)
    \/ DelayElapsed
    \/ \E r \in Responses : RetryResponse(r)
    \/ FetchRejects
    \/ \E d \in Bodies : JsonResolves(d)
    \/ JsonRejects

Spec == Init /\ [][Next]_vars

(***************************************************************************)
(* detectPromptStructure over bounded inputs                               *)
(***************************************************************************)

MaxDetectPieces == 4

\* the pieces an input of detectPromptStructure is concatenated from
DetectPieces == {"\"", LS, "\n", "# x", "- x", "User:", "you are", "<a>", "</a>", "[1]"}

DetectInit ==
    /\ text = ""
    /\ npieces = 0
    /\ out = NotCalled
    /\ phase = "input"
    /\ CallIdle
    /\ SrvIdle

AppendDetectPiece ==
    /\ phase = "input"
    /\ npieces < MaxDetectPieces
    /\ \E p \in DetectPieces : text' = text \o p
    /\ npieces' = npieces + 1
    /\ UNCHANGED <<out, phase>>
    /\ UNCHANGED <<callVars, srvVars, webVars>>

CallDetect ==
    /\ phase = "input"
    /\ out' = detectPromptStructure(text)
    /\ phase' = "called"
    /\ UNCHANGED <<text, npieces>>
    /\ UNCHANGED <<callVars, srvVars, webVars>>

DetectNext == AppendDetectPiece \/ CallDetect

SpecDetect == DetectInit /\ [][DetectNext]_vars

(***************************************************************************)
(* The response normalizer over bounded model outputs                      *)
(***************************************************************************)

MaxOutputPieces == 5

\* the pieces a model output is concatenated from
OutputPieces == {ThinkingOpen, ThinkingClose, "<thin", "king>", "\n", "x", Fence}

NormalizeInit == DetectInit

AppendOutputPiece ==
    /\ phase = "input"
    /\ npieces < MaxOutputPieces
    /\ \E p \in OutputPieces : text' = text \o p
    /\ npieces' = npieces + 1
    /\ UNCHANGED <<out, phase>>
    /\ UNCHANGED <<callVars, srvVars, webVars>>

CallNormalize ==
    /\ phase = "input"
    /\ out' = [type |-> "normalized",
               processed |-> processThinkingModelResponse(text),
               value |-> normalize(text)]
    /\ phase' = "called"
    /\ UNCHANGED <<text, npieces>>
    /\ UNCHANGED <<callVars, srvVars, webVars>>

NormalizeNext == AppendOutputPiece \/ CallNormalize

SpecNormalize == NormalizeInit /\ [][NormalizeNext]_vars

(***************************************************************************)
(* calculateMaxTokens over prompts of bounded length                       *)
(***************************************************************************)

MaxTokenPieces == 12
MaxPromptLen == 5345

\* a prompt of n characters
RECURSIVE Xs(_)
Xs(n) ==
    IF n = 0 THEN ""
    ELSE IF n % 2 = 0 THEN Xs(n \div 2) \o Xs(n \div 2)
    ELSE "x" \o Xs(n - 1)

\* the pieces a prompt is concatenated from: one character, and blocks
\* that reach the floor and the ceiling of the budget
TokenPieces == {"x", Xs(664), Xs(5328)}

TokensInit == DetectInit

AppendTokenPiece ==
    /\ phase = "input"
    /\ npieces < MaxTokenPieces
    /\ \E p \in TokenPieces :
          /\ Len(text) + Len(p) <= MaxPromptLen
          /\ text' = text \o p
    /\ npieces' = npieces + 1
    /\ UNCHANGED <<out, phase>>
    /\ UNCHANGED <<callVars, srvVars, webVars>>

\* the max_tokens of the request makeRequest builds for the prompt
CallTokens ==
    /\ phase = "input"
    /\ out' = [type |-> "tokens",
               value |-> makeRequest([apiKey |-> "sk-or-key", model |-> DEFAULT_MODEL],
                                     text,
                                     [type |-> "plain", preserveFormat |-> FALSE],
                                     "").max_tokens]
    /\ phase' = "called"
    /\ UNCHANGED <<text, npieces>>
    /\ UNCHANGED <<callVars, srvVars, webVars>>

TokensNext == AppendTokenPiece \/ CallTokens

SpecTokens == TokensInit /\ [][TokensNext]_vars

(***************************************************************************)
(* sanitizeInput over bounded raw prompts                                  *)
(***************************************************************************)

MaxSanitizePieces == 5

\* the pieces a raw prompt is concatenated from
SanitizePieces == {"<script>", "</SCRIPT>", "<scr", "ipt>", "<", "x>"}

SanitizeInit == DetectInit

AppendSanitizePiece ==
    /\ phase = "input"
    /\ npieces < MaxSanitizePieces
    /\ \E p \in SanitizePieces : text' = text \o p
    /\ npieces' = npieces + 1
    /\ UNCHANGED <<out, phase>>
    /\ UNCHANGED <<callVars, srvVars, webVars>>

CallSanitize ==
    /\ phase = "input"
    /\ out' = [type |-> "sanitized",
               kind |-> detectPromptStructure(text).type,
               value |-> sanitizeInput(text)]
    /\ phase' = "called"
    /\ UNCHANGED <<text, npieces>>
    /\ UNCHANGED <<callVars, srvVars, webVars>>

SanitizeNext == AppendSanitizePiece \/ CallSanitize

SpecSanitize == SanitizeInit /\ [][SanitizeNext]_vars

(***************************************************************************)
(* The context the servers build from a request's prior turns and its      *)
(* free-text context, over bounded lists of turns                          *)
(***************************************************************************)

ContextTurns == 6

\* variant: the first n elements instead of the last n
SliceLast_First(seq, n) == SubSeq(seq, 1, IF Len(seq) < n THEN Len(seq) ELSE n)

\* Array.prototype.slice(-n)
SliceLast(seq, n) == SubSeq(seq, IF Len(seq) > n THEN Len(seq) - n + 1 ELSE 1, Len(seq))

\* m => role: content
RenderTurn(m) == m.role \o ": " \o m.content

\* Array.prototype.map(RenderTurn).join(sep)
RECURSIVE JoinTurns(_, _)
JoinTurns(seq, sep) ==
    IF seq = <<>> THEN ""
    ELSE IF Len(seq) = 1 THEN RenderTurn(seq[1])
    ELSE RenderTurn(seq[1]) \o sep \o JoinTurns(Tail(seq), sep)

\* variant: the separator and the free text are appended even when there
\* is no free text
buildFullContext_AlwaysLabel(context, msgs) ==
    IF Len(msgs) > 0
    THEN "Recent conversation:\n" \o JoinTurns(SliceLast(msgs, ContextTurns), "\n\n")
             \o "\n\nAdditional context: " \o context
    ELSE context

\* fullContext of the servers' enhance handlers; context is "" when the
\* request has none, msgs is empty when the request has no messages
buildFullContext(context, msgs) ==
    IF Len(msgs) > 0
    THEN "Recent conversation:\n" \o JoinTurns(SliceLast(msgs, ContextTurns), "\n\n")
             \o (IF context # "" THEN "\n\nAdditional context: " \o context ELSE "")
    ELSE context

MaxTurns == 8

\* the free-text context of a request
FreeContexts == {"", "we use React"}

\* the turn a caller may append as turn number k: its content names k
TurnsAt(k) ==
    {[role |-> "user", content |-> "t" \o ToString(k)],
     [role |-> "assistant", content |-> "t" \o ToString(k)],
     [role |-> "user", content |-> "t" \o ToString(k) \o " ok?\n\nassistant: none"]}

ContextInit ==
    /\ text = ""
    /\ npieces = 0
    /\ out = NotCalled
    /\ phase = "input"
    /\ CallIdle
    /\ messages = <<>>
    /\ mode = "off"
    /\ env = ""
    /\ shared = NoClient
    /\ calls = <<>>
    /\ WebIdle

AppendTurn ==
    /\ phase = "input"
    /\ Len(messages) < MaxTurns
    /\ \E m \in TurnsAt(Len(messages) + 1) : messages' = Append(messages, m)
    /\ npieces' = npieces + 1
    /\ UNCHANGED <<text, out, phase>>
    /\ UNCHANGED <<mode, env, shared, calls>>
    /\ UNCHANGED <<callVars, webVars>>

CallBuildContext ==
    /\ phase = "input"
    /\ \E c \in FreeContexts :
          /\ text' = c
          /\ out' = [type |-> "context", value |-> buildFullContext(c, messages)]
    /\ phase' = "called"
    /\ UNCHANGED <<npieces, messages>>
    /\ UNCHANGED <<mode, env, shared, calls>>
    /\ UNCHANGED <<callVars, webVars>>

ContextNext == AppendTurn \/ CallBuildContext

SpecContext == ContextInit /\ [][ContextNext]_vars

(***************************************************************************)
(* The servers: enhancement requests arrive, each handler runs up to its   *)
(* first await in one step, and the calls of enhancePrompt under way       *)
(* interleave at their awaits.                                             *)
(*   "mcp"   handleEnhancePrompt of unified-server.ts (stdio or WebSocket) *)
(*   "web"   POST /enhance of unified-server.ts                            *)
(*   "stdio" handleEnhancePrompt of dist/index.js, which keeps its client  *)
(*           in the field this.openRouterClient                            *)
(*   "sse"   POST /enhance of the SSE server                               *)
(***************************************************************************)

MaxRequests == 2

ServerModes == {"mcp", "web", "stdio", "sse"}
ServerEnvs == {"", "sk-or-key"}

\* an optional field of a request: absent, or present with a string value
NoArg == [present |-> FALSE, value |-> ""]
Arg(v) == [present |-> TRUE, value |-> v]

\* the requests callers send; context "" and messages <<>> stand for
\* absent fields, hasPrompt FALSE for a request without the prompt field
ServerArgs ==
    {[hasPrompt |-> FALSE, prompt |-> "", context |-> "", messages |-> <<>>,
      model |-> NoArg],
     [hasPrompt |-> TRUE, prompt |-> "fix the bug", context |-> "", messages |-> <<>>,
      model |-> NoArg],
     [hasPrompt |-> TRUE, prompt |-> "# Plan", context |-> "we use React",
      messages |-> <<[role |-> "user", content |-> "hi"]>>,
      model |-> Arg("openai/gpt-4o-mini")],
     [hasPrompt |-> TRUE, prompt |-> "User: hi", context |-> "", messages |-> <<>>,
      model |-> Arg("")],
     [hasPrompt |-> TRUE, prompt |-> "fix the bug", context |-> "", messages |-> <<>>,
      model |-> Arg("mistralai/mistral-7b-instruct")]}

\* what the provider answers a call of the servers with
ServerResponses ==
    { r \in Responses :
        r.retryAfter = IF r.status = 429 THEN Header("1") ELSE NoHeader }
ServerContents ==
    {"<thinking>plan</thinking>\n\nHere is the enhanced prompt: Actually do X"}
ServerBodies ==
    {[kind |-> "body", hasChoices |-> TRUE, choices |-> <<>>]}
    \cup { [kind |-> "body", hasChoices |-> TRUE, choices |-> <<JsString(c)>>] :
             c \in ServerContents }

\* processThinkingModelResponse and cleanResponse of each content, computed
\* once
Normalized == [c \in ServerContents |-> normalize(c)]

\* the default of the model field in EnhancePromptSchema, and of the
\* destructuring in the SSE server
SchemaDefaultModel == "google/gemini-2.5-flash-preview-05-20"

\* args.model after validation
ValidatedModel(a) == IF a.model.present THEN a.model.value ELSE SchemaDefaultModel

\* the models the tool's input schema lists (enum of the model property)
AdvertisedModels ==
    {"google/gemini-2.5-flash-preview-05-20",
     "deepseek/deepseek-chat-v3-0324:free",
     "anthropic/claude-3-haiku",
     "openai/gpt-4o-mini"}

\* variant: a model that is not advertised is replaced by the default
NewClient_AdvertisedOnly(apiKey, model) ==
    [apiKey |-> apiKey,
     model |-> IF model \in AdvertisedModels THEN model ELSE DEFAULT_MODEL]

\* new OpenRouterClient(apiKey, model) for a key that is set
NewClient(apiKey, model) ==
    [apiKey |-> apiKey, model |-> IF model # "" THEN model ELSE DEFAULT_MODEL]

IsHttp(m) == m \in {"web", "sse"}

NoReply == [kind |-> "none", code |-> "", text |-> ""]

\* the answer to a request without prompt
ValidationReply(m) ==
    CASE m \in {"mcp", "stdio"} ->
             [kind |-> "error", code |-> "InvalidParams",
              text |-> "Invalid parameters: Required"]
      [] m = "web" ->
             [kind |-> "error", code |-> "500", text |-> "ZodError: prompt: Required"]
      [] m = "sse" ->
             [kind |-> "error", code |-> "400", text |-> "Prompt is required"]

\* the answer when the handler catches error e
FailureReply(m, e) ==
    IF IsHttp(m)
    THEN [kind |-> "error", code |-> "500", text |-> e.message]
    ELSE [kind |-> "error", code |-> "InternalError",
          text |-> "Enhancement failed: " \o e.message]

\* the McpError the stdio server throws when it has no client
NotInitializedReply ==
    [kind |-> "error", code |-> "InternalError",
     text |-> "OpenRouter client not initialized. Please set OPENROUTER_API_KEY environment variable."]

KeyNotConfigured == JsError("Error", "OpenRouter API key not configured")

SuccessReply(m, t) ==
    [kind |-> "result", code |-> IF IsHttp(m) THEN "200" ELSE "ok", text |-> t]

\* a request answered before any call of enhancePrompt
Rejected(a, reply) ==
    [args |-> a, pc |-> "done", client |-> NoClient, sanitized |-> "",
     structure |-> NoStructure, context |-> "", sent |-> <<>>, got |-> <<>>,
     reply |-> reply]

\* cl.enhancePrompt(a.prompt, ctx) up to its first await
StartCall(a, cl, ctx) ==
    Let(sanitizeInput(a.prompt), LAMBDA san :
        Let(detectPromptStructure(san), LAMBDA st :
            [args |-> a, pc |-> "fetch1", client |-> cl, sanitized |-> san,
             structure |-> st, context |-> ctx,
             sent |-> <<makeRequest(cl, san, st, ctx)>>, got |-> <<>>,
             reply |-> NoReply]))

ServerInit ==
    /\ mode \in ServerModes
    /\ env \in ServerEnvs
    \* setupHandlers of the stdio server: new OpenRouterClient(apiKey)
    /\ shared = IF mode = "stdio" /\ env # "" THEN NewClient(env, "") ELSE NoClient
    /\ calls = <<>>
    /\ messages = <<>>
    /\ CallIdle
    /\ FnIdle
    /\ WebIdle

\* variant: the handlers do not look for the key before they build the
\* client and call it
Receive_NoKeyCheck(a) ==
    /\ mode \in ServerModes
    /\ Len(calls) < MaxRequests
    /\ IF ~a.hasPrompt
       THEN /\ calls' = Append(calls, Rejected(a, ValidationReply(mode)))
            /\ UNCHANGED shared
       ELSE /\ calls' = Append(calls,
                  StartCall(a, [apiKey |-> env, model |-> ValidatedModel(a)],
                            buildFullContext(a.context, a.messages)))
            /\ UNCHANGED shared
    /\ UNCHANGED <<messages, mode, env>>
    /\ UNCHANGED <<callVars, fnVars, webVars>>

\* variant: the handlers look for the key before they validate the request
Receive_KeyCheckFirst(a) ==
    /\ mode \in ServerModes
    /\ Len(calls) < MaxRequests
    /\ IF (IF mode = "stdio" THEN shared = NoClient ELSE env = "")
       THEN /\ calls' = Append(calls,
                    Rejected(a, IF mode = "stdio" THEN NotInitializedReply
                                ELSE FailureReply(mode, KeyNotConfigured)))
            /\ UNCHANGED shared
       ELSE IF ~a.hasPrompt
       THEN /\ calls' = Append(calls, Rejected(a, ValidationReply(mode)))
            /\ UNCHANGED shared
       ELSE IF mode = "stdio"
       THEN /\ shared' = IF ValidatedModel(a) # ""
                         THEN NewClient(env, ValidatedModel(a))
                         ELSE shared
            /\ calls' = Append(calls, StartCall(a, shared', a.context))
       ELSE /\ calls' = Append(calls,
                  StartCall(a, NewClient(env, ValidatedModel(a)),
                            buildFullContext(a.context, a.messages)))
            /\ UNCHANGED shared
    /\ UNCHANGED <<messages, mode, env>>
    /\ UNCHANGED <<callVars, fnVars, webVars>>

\* a request arrives and its handler runs up to its first await
Receive(a) ==
    /\ mode \in ServerModes
    /\ Len(calls) < MaxRequests
    /\ IF ~a.hasPrompt
       THEN /\ calls' = Append(calls, Rejected(a, ValidationReply(mode)))
            /\ UNCHANGED shared
       ELSE IF mode = "stdio"
       THEN IF shared = NoClient
            THEN /\ calls' = Append(calls, Rejected(a, NotInitializedReply))
                 /\ UNCHANGED shared
            ELSE \* if (validatedArgs.model) this.openRouterClient = new ...
                 /\ shared' = IF ValidatedModel(a) # ""
                              THEN NewClient(env, ValidatedModel(a))
                              ELSE shared
                 /\ calls' = Append(calls, StartCall(a, shared', a.context))
       ELSE IF env = ""
       THEN /\ calls' = Append(calls, Rejected(a, FailureReply(mode, KeyNotConfigured)))
            /\ UNCHANGED shared
       ELSE /\ calls' = Append(calls,
                  StartCall(a, NewClient(env, ValidatedModel(a)),
                            buildFullContext(a.context, a.messages)))
            /\ UNCHANGED shared
    /\ UNCHANGED <<messages, mode, env>>
    /\ UNCHANGED <<callVars, fnVars, webVars>>

\* call i ends with error e, which its handler catches
Fail(i, e, events) ==
    calls' = [calls EXCEPT ![i].pc = "done",
                           ![i].got = @ \o events,
                           ![i].reply = FailureReply(mode, e)]

\* the first fetch of call i resolves with r
CallFirstResponse(i, r) ==
    /\ i \in 1..Len(calls)
    /\ calls[i].pc = "fetch1"
    /\ IF Ok(r)
       THEN calls' = [calls EXCEPT ![i].pc = "json", ![i].got = Append(@, r)]
       ELSE IF r.status = 429 /\ Truthy(r.retryAfter)
       THEN calls' = [calls EXCEPT ![i].pc = "delay", ![i].got = Append(@, r)]
       ELSE Fail(i, ApiError(r), <<r>>)
    /\ UNCHANGED <<messages, mode, env, shared>>
    /\ UNCHANGED <<callVars, fnVars, webVars>>

\* variant: the retry is built by the client the server's field holds now
CallDelayElapsed_SharedClient(i) ==
    /\ i \in 1..Len(calls)
    /\ calls[i].pc = "delay"
    /\ calls' = [calls EXCEPT
           ![i].pc = "fetch2",
           ![i].sent = Append(@, makeRequest(IF mode = "stdio" THEN shared ELSE calls[i].client,
                                             calls[i].sanitized,
                                             calls[i].structure, calls[i].context))]
    /\ UNCHANGED <<messages, mode, env, shared>>
    /\ UNCHANGED <<callVars, fnVars, webVars>>

\* the sleep of call i ends: its second makeRequest, on its own client
CallDelayElapsed(i) ==
    /\ i \in 1..Len(calls)
    /\ calls[i].pc = "delay"
    /\ calls' = [calls EXCEPT
           ![i].pc = "fetch2",
           ![i].sent = Append(@, makeRequest(calls[i].client, calls[i].sanitized,
                                             calls[i].structure, calls[i].context))]
    /\ UNCHANGED <<messages, mode, env, shared>>
    /\ UNCHANGED <<callVars, fnVars, webVars>>

\* the retry of call i resolves with r
CallRetryResponse(i, r) ==
    /\ i \in 1..Len(calls)
    /\ calls[i].pc = "fetch2"
    /\ IF Ok(r)
       THEN calls' = [calls EXCEPT ![i].pc = "json", ![i].got = Append(@, r)]
       ELSE Fail(i, ApiError(r), <<r>>)
    /\ UNCHANGED <<messages, mode, env, shared>>
    /\ UNCHANGED <<callVars, fnVars, webVars>>

\* response.json() of call i resolves with data; the handler answers
CallJsonResolves(i, data) ==
    /\ i \in 1..Len(calls)
    /\ calls[i].pc = "json"
    /\ IF ~data.hasChoices \/ Len(data.choices) = 0
       THEN Fail(i, JsError("Error", "No response from API"), <<data>>)
       ELSE calls' = [calls EXCEPT
                ![i].pc = "done",
                ![i].got = Append(@, data),
                ![i].reply = SuccessReply(mode, Normalized[data.choices[1].v])]
    /\ UNCHANGED <<messages, mode, env, shared>>
    /\ UNCHANGED <<callVars, fnVars, webVars>>

ServerNext ==
    \/ \E a \in ServerArgs : Receive(a)
    \/ \E i \in 1..MaxRequests, r \in ServerResponses : CallFirstResponse(i, r)
    \/ \E i \in 1..MaxRequests : CallDelayElapsed(i)
    \/ \E i \in 1..MaxRequests, r \in ServerResponses : CallRetryResponse(i, r)
    \/ \E i \in 1..MaxRequests, d \in ServerBodies : CallJsonResolves(i, d)

SpecServer == ServerInit /\ [][ServerNext]_vars

(***************************************************************************)
(* cleanResponse step by step: the trim, the three passes of the prefix     *)
(* loop, the suffix loop and the return, over outputs made of pieces.  out  *)
(* holds the local cleaned, the loop counters, and the steps taken so far.  *)
(***************************************************************************)

MaxCleanPieces == 5

CleanPieces == {"Enhanced prompt: ", Fence, "x", " Hope this helps!"}

CleanInit == DetectInit

AppendCleanPiece ==
    /\ phase = "input"
    /\ npieces < MaxCleanPieces
    /\ \E p \in CleanPieces : text' = text \o p
    /\ npieces' = npieces + 1
    /\ UNCHANGED <<out, phase>>
    /\ UNCHANGED <<callVars, srvVars, webVars>>

\* let cleaned = content.trim();
CleanStart ==
    /\ phase = "input"
    /\ out' = [type |-> "cleaning", cleaned |-> Trim(text), i |-> 0, suffixes |-> 0,
               steps |-> <<>>]
    /\ phase' = "cleaning"
    /\ UNCHANGED <<text, npieces>>
    /\ UNCHANGED <<callVars, srvVars, webVars>>

\* one round of the outer loop: the whole prefix list, then the trim
PrefixPass ==
    /\ phase = "cleaning"
    /\ out.i < PrefixPasses
    /\ LET after == Trim(RemovePrefixes(out.cleaned, 1))
       IN  out' = [out EXCEPT !.cleaned = after,
                              !.i = @ + 1,
                              !.steps = Append(@, [step |-> "prefixes", n |-> out.i,
                                                   before |-> out.cleaned,
                                                   after |-> after])]
    /\ UNCHANGED <<text, npieces, phase>>
    /\ UNCHANGED <<callVars, srvVars, webVars>>

\* a variant of the suffix loop that starts over at the first suffix when a
\* suffix was removed
ApplySuffix_StartOver ==
    /\ phase = "cleaning"
    /\ out.i = PrefixPasses
    /\ out.suffixes < Len(unwantedSuffixes)
    /\ LET n == out.suffixes + 1
           after == RemoveSuffix(out.cleaned, unwantedSuffixes[n])
       IN  out' = [out EXCEPT !.cleaned = after,
                              !.suffixes = IF after # out.cleaned THEN 0 ELSE n,
                              !.steps = Append(@, [step |-> "suffix", n |-> n,
                                                   before |-> out.cleaned,
                                                   after |-> after])]
    /\ UNCHANGED <<text, npieces, phase>>
    /\ UNCHANGED <<callVars, srvVars, webVars>>

\* one round of the suffix loop, entered when the prefix loop is over
ApplySuffix ==
    /\ phase = "cleaning"
    /\ out.i = PrefixPasses
    /\ out.suffixes < Len(unwantedSuffixes)
    /\ LET n == out.suffixes + 1
           after == RemoveSuffix(out.cleaned, unwantedSuffixes[n])
       IN  out' = [out EXCEPT !.cleaned = after,
                              !.suffixes = n,
                              !.steps = Append(@, [step |-> "suffix", n |-> n,
                                                   before |-> out.cleaned,
                                                   after |-> after])]
    /\ UNCHANGED <<text, npieces, phase>>
    /\ UNCHANGED <<callVars, srvVars, webVars>>

\* return cleaned.trim() || content;
CleanReturn ==
    /\ phase = "cleaning"
    /\ out.i = PrefixPasses
    /\ out.suffixes = Len(unwantedSuffixes)
    /\ LET trimmed == Trim(out.cleaned)
       IN  out' = [type |-> "cleaned", steps |-> out.steps,
                   value |-> IF trimmed = "" THEN text ELSE trimmed]
    /\ phase' = "called"
    /\ UNCHANGED <<text, npieces>>
    /\ UNCHANGED <<callVars, srvVars, webVars>>

CleanNext == AppendCleanPiece \/ CleanStart \/ PrefixPass \/ ApplySuffix \/ CleanReturn

SpecClean == CleanInit /\ [][CleanNext]_vars

(***************************************************************************)
(* The web servers (web mode of unified-server.ts, and the SSE server):     *)
(* subscribers connect to GET /sse and close, POST /enhance broadcasts to   *)
(* the clients list around its call of the pipeline.  The pipeline is the   *)
(* call modelled in Spec; here it resolves with a text or rejects with an   *)
(* error.  An event carries the index of the request it was written for.    *)
(***************************************************************************)

MaxConnections == 2
MaxPosts == 1

\* the bodies of POST /enhance: without prompt, and with one
WebArgs == { a \in ServerArgs : ~a.model.present }

\* what the pipeline resolves with, and what it rejects with
EnhancedTexts == {"Actually do X"}
EnhanceErrors == {JsError("Error", "No response from API")}

Event(type, i) == [type |-> type, req |-> i]

\* clients.forEach(client => client.response.write(...)): a write to a
\* connection that is closed reaches nobody
Broadcast(cn, ev) ==
    [c \in DOMAIN cn |->
        IF cn[c].open /\ \E k \in DOMAIN clients : clients[k].response = c
        THEN [cn[c] EXCEPT !.events = Append(@, ev)]
        ELSE cn[c]]

\* clients.findIndex(client => client.id === clientId), 0 for -1
FindIndex(id) ==
    LET found == { k \in DOMAIN clients : clients[k].id = id }
    IN  IF found = {} THEN 0 ELSE Min(found)

\* clients.splice(index, 1)
Splice(index) ==
    [ k \in 1..(Len(clients) - 1) |-> IF k < index THEN clients[k] ELSE clients[k + 1] ]

WebInit ==
    /\ mode \in {"web", "sse"}
    /\ env \in ServerEnvs
    /\ shared = NoClient
    /\ calls = <<>>
    /\ messages = <<>>
    /\ WebIdle
    /\ CallIdle
    /\ FnIdle

\* a millisecond passes (one in which no connection was made goes unseen)
Tick ==
    /\ mode \in {"web", "sse"}
    /\ \E c \in DOMAIN conns : conns[c].id = now
    /\ now' = now + 1
    /\ UNCHANGED <<clients, conns>>
    /\ UNCHANGED <<srvVars, callVars, fnVars>>

\* GET /sse: the connection is pushed on clients under the id Date.now()
GetSse ==
    /\ mode \in {"web", "sse"}
    /\ Len(conns) < MaxConnections
    /\ LET c == Len(conns) + 1 IN
       /\ clients' = Append(clients, [id |-> now, response |-> c])
       /\ conns' = Append(conns, [id |-> now, open |-> TRUE,
                                  events |-> <<Event("connected", 0)>>])
    /\ UNCHANGED now
    /\ UNCHANGED <<srvVars, callVars, fnVars>>

\* variant: the close handler removes the entry of its own response
SseClose_ByResponse(c) ==
    /\ c \in DOMAIN conns
    /\ conns[c].open
    /\ LET found == { k \in DOMAIN clients : clients[k].response = c }
           index == IF found = {} THEN 0 ELSE Min(found)
       IN  clients' = IF index # 0 THEN Splice(index) ELSE clients
    /\ conns' = [conns EXCEPT ![c].open = FALSE]
    /\ UNCHANGED now
    /\ UNCHANGED <<srvVars, callVars, fnVars>>

\* connection c closes: its handler removes the first entry with its id
SseClose(c) ==
    /\ c \in DOMAIN conns
    /\ conns[c].open
    /\ LET index == FindIndex(conns[c].id)
       IN  clients' = IF index # 0 THEN Splice(index) ELSE clients
    /\ conns' = [conns EXCEPT ![c].open = FALSE]
    /\ UNCHANGED now
    /\ UNCHANGED <<srvVars, callVars, fnVars>>

\* a request that was answered by the handler's first run
Answered(a, steps, reply) == [args |-> a, pc |-> "done", steps |-> steps, reply |-> reply]

\* POST /enhance up to its first await that waits for the provider
PostEnhance(a) ==
    /\ mode \in {"web", "sse"}
    /\ Len(calls) < MaxPosts
    /\ LET i == Len(calls) + 1 IN
       IF ~a.hasPrompt
       THEN IF mode = "web"
            THEN \* the ZodError is caught: the error is broadcast, then 500
                 /\ calls' = Append(calls, Answered(a, <<"error", "respond">>,
                                                    ValidationReply(mode)))
                 /\ conns' = Broadcast(conns, Event("error", i))
            ELSE /\ calls' = Append(calls, Answered(a, <<"respond">>, ValidationReply(mode)))
                 /\ UNCHANGED conns
       ELSE IF env = ""
       THEN IF mode = "web"
            THEN \* enhancePrompt(validatedArgs) throws after the broadcast
                 /\ calls' = Append(calls,
                        Answered(a, <<"enhancement_started", "invoke", "error", "respond">>,
                                 FailureReply(mode, KeyNotConfigured)))
                 /\ conns' = Broadcast(Broadcast(conns, Event("enhancement_started", i)),
                                       Event("error", i))
            ELSE /\ calls' = Append(calls, Answered(a, <<"respond">>,
                                                    FailureReply(mode, KeyNotConfigured)))
                 /\ UNCHANGED conns
       ELSE /\ calls' = Append(calls, [args |-> a, pc |-> "pipeline",
                                       steps |-> <<"enhancement_started", "invoke">>,
                                       reply |-> NoReply])
            /\ conns' = Broadcast(conns, Event("enhancement_started", i))
    /\ UNCHANGED <<clients, now>>
    /\ UNCHANGED <<messages, mode, env, shared>>
    /\ UNCHANGED <<callVars, fnVars>>

\* the pipeline of request i resolves with enhanced
EnhanceResolves(i, enhanced) ==
    /\ mode \in {"web", "sse"}
    /\ i \in 1..Len(calls)
    /\ calls[i].pc = "pipeline"
    /\ conns' = Broadcast(conns, Event("enhancement_completed", i))
    /\ calls' = [calls EXCEPT ![i].pc = "done",
                              ![i].steps = @ \o <<"enhancement_completed", "respond">>,
                              ![i].reply = SuccessReply(mode, enhanced)]
    /\ UNCHANGED <<clients, now>>
    /\ UNCHANGED <<messages, mode, env, shared>>
    /\ UNCHANGED <<callVars, fnVars>>

\* variant: the catch block answers but does not broadcast
EnhanceRejects_NoBroadcast(i, e) ==
    /\ mode \in {"web", "sse"}
    /\ i \in 1..Len(calls)
    /\ calls[i].pc = "pipeline"
    /\ calls' = [calls EXCEPT ![i].pc = "done",
                              ![i].steps = @ \o <<"respond">>,
                              ![i].reply = FailureReply(mode, e)]
    /\ UNCHANGED <<clients, now, conns>>
    /\ UNCHANGED <<messages, mode, env, shared>>
    /\ UNCHANGED <<callVars, fnVars>>

\* the pipeline of request i rejects with e: the catch block
EnhanceRejects(i, e) ==
    /\ mode \in {"web", "sse"}
    /\ i \in 1..Len(calls)
    /\ calls[i].pc = "pipeline"
    /\ conns' = Broadcast(conns, Event("error", i))
    /\ calls' = [calls EXCEPT ![i].pc = "done",
                              ![i].steps = @ \o <<"error", "respond">>,
                              ![i].reply = FailureReply(mode, e)]
    /\ UNCHANGED <<clients, now>>
    /\ UNCHANGED <<messages, mode, env, shared>>
    /\ UNCHANGED <<callVars, fnVars>>

WebNext ==
    \/ Tick
    \/ GetSse
    \/ \E c \in 1..MaxConnections : SseClose(c)
    \/ \E a \in WebArgs : PostEnhance(a)
    \/ \E i \in 1..MaxPosts, t \in EnhancedTexts : EnhanceResolves(i, t)
    \/ \E i \in 1..MaxPosts, e \in EnhanceErrors : EnhanceRejects(i, e)

SpecWeb == WebInit /\ [][WebNext]_vars

(***************************************************************************)
(* The standalone remote-MCP server: POST /messages takes a JSON-RPC        *)
(* message and answers it on its own response.  handleEnhancePrompt is the  *)
(* handler of the MCP servers; the pipeline it awaits resolves with a text  *)
(* or rejects with an error.                                                *)
(***************************************************************************)

MaxMessages == 2

\* the ids of the messages; NoArg is a message without id
RpcIds == {NoArg, Arg("1"), Arg("2")}

\* req.body: method "" and name "" stand for a message without the field
RpcMessages ==
    { [id |-> i, method |-> m, name |-> "", arguments |-> a] :
        i \in RpcIds, m \in {"tools/list", "initialize", ""},
        a \in { x \in WebArgs : ~x.hasPrompt } }
    \cup { [id |-> i, method |-> "tools/call", name |-> "enhance_prompt", arguments |-> a] :
             i \in RpcIds, a \in WebArgs }
    \cup { [id |-> i, method |-> "tools/call", name |-> "other_tool", arguments |-> a] :
             i \in RpcIds, a \in { x \in WebArgs : ~x.hasPrompt } }

\* new McpError(code, message): the message carries the code
McpErrorMessage(code, message) == "MCP error " \o code \o ": " \o message

\* variant: the answer carries no id
RpcResult_NoId(message, content) ==
    [id |-> NoArg, kind |-> "result", code |-> 0, text |-> content]

\* res.json({ jsonrpc: "2.0", id: message.id, result })
RpcResult(message, content) ==
    [id |-> message.id, kind |-> "result", code |-> 0, text |-> content]

\* res.json({ jsonrpc: "2.0", id: ..., error: { code, message } })
RpcError(message, code, errorMessage) ==
    [id |-> message.id, kind |-> "error", code |-> code, text |-> errorMessage]

\* the answer of the catch block of POST /messages to the McpError that
\* handleEnhancePrompt threw
RpcFailure(message, mcpCode, errorMessage) ==
    RpcError(message, -32603, McpErrorMessage(mcpCode, errorMessage))

MessagesInit ==
    /\ mode = "remote"
    /\ env \in ServerEnvs
    /\ shared = NoClient
    /\ calls = <<>>
    /\ messages = <<>>
    /\ WebIdle
    /\ CallIdle
    /\ FnIdle

\* POST /messages up to the await of the provider, if it gets there
PostMessages(message) ==
    /\ mode = "remote"
    /\ Len(calls) < MaxMessages
    /\ LET answered(outcome, r) ==
               [message |-> message, pc |-> "done", outcome |-> outcome,
                responses |-> <<r>>]
       IN  calls' = Append(calls,
               IF message.method = "tools/list"
               THEN answered("listed", RpcResult(message, "tools"))
               ELSE IF message.method = "tools/call" /\ message.name = "enhance_prompt"
               THEN IF ~message.arguments.hasPrompt
                    THEN answered("invalid",
                                  RpcFailure(message, "-32602", "Invalid parameters: Required"))
                    ELSE IF env = ""
                    THEN answered("failed",
                                  RpcFailure(message, "-32603",
                                             "Enhancement failed: " \o KeyNotConfigured.message))
                    ELSE [message |-> message, pc |-> "pipeline", outcome |-> "none",
                          responses |-> <<>>]
               ELSE answered("unknown", RpcError(message, -32601, "Method not found")))
    /\ UNCHANGED <<messages, mode, env, shared>>
    /\ UNCHANGED <<callVars, fnVars, webVars>>

\* the pipeline of message i resolves: handleEnhancePrompt returns the
\* content, POST /messages answers with it
MessageResolves(i, enhanced) ==
    /\ mode = "remote"
    /\ i \in 1..Len(calls)
    /\ calls[i].pc = "pipeline"
    /\ calls' = [calls EXCEPT
           ![i].pc = "done",
           ![i].outcome = "enhanced",
           ![i].responses = Append(@, RpcResult(calls[i].message, enhanced))]
    /\ UNCHANGED <<messages, mode, env, shared>>
    /\ UNCHANGED <<callVars, fnVars, webVars>>

\* the pipeline of message i rejects with e: handleEnhancePrompt throws the
\* McpError, the catch block of POST /messages answers
MessageRejects(i, e) ==
    /\ mode = "remote"
    /\ i \in 1..Len(calls)
    /\ calls[i].pc = "pipeline"
    /\ calls' = [calls EXCEPT
           ![i].pc = "done",
           ![i].outcome = "failed",
           ![i].responses = Append(@, RpcFailure(calls[i].message, "-32603",
                                                 "Enhancement failed: " \o e.message))]
    /\ UNCHANGED <<messages, mode, env, shared>>
    /\ UNCHANGED <<callVars, fnVars, webVars>>

MessagesNext ==
    \/ \E m \in RpcMessages : PostMessages(m)
    \/ \E i \in 1..MaxMessages, t \in EnhancedTexts : MessageResolves(i, t)
    \/ \E i \in 1..MaxMessages, e \in EnhanceErrors : MessageRejects(i, e)

SpecMessages == MessagesInit /\ [][MessagesNext]_vars

(***************************************************************************)
(* Properties of one enhancePrompt call, checked under Spec                *)
(***************************************************************************)

IsRequest(e) == e.kind = "request"
IsResponse(e) == e.kind = "response"
IsDelay(e) == e.kind = "delay"

Requests == SelectSeq(log, IsRequest)
Delays == SelectSeq(log, IsDelay)
Finished == pc \in {"returned", "thrown"}

\* the message of the error the code throws on a non-2xx response
FailureMessage(status, statusText) ==
    "API request failed: " \o ToString(status) \o " " \o statusText

\* C1: whatever the provider answers, one call of enhancePrompt issues at
\* most two chat-completion requests: the original and at most one retry.
C1_AtMostTwoRequests == Len(Requests) <= 2

\* C1 witness: a call has ended after its second request.
C1_Witness == Finished /\ Len(Requests) = 2

\* the first response is a 429 whose Retry-After header reads n seconds
First429After(n) ==
    /\ Len(log) >= 2
    /\ log[2].status = 429
    /\ log[2].retryAfter = Header(ToString(n))

\* After a first 429 with Retry-After: n the call sleeps once, for n
\* seconds, and sends the one retry (the same request again) only after
\* the sleep.
SleepsThenRetriesOnce(n) ==
    /\ Len(log) >= 3
    /\ log[3] = [kind |-> "delay", nan |-> FALSE, ms |-> n * 1000]
    /\ Len(Delays) = 1
    /\ pc = "delay" => Len(log) = 3
    /\ Len(log) >= 4 => log[4] = log[1] /\ Len(Requests) = 2

RetryAlso429 == Len(log) >= 5 /\ IsResponse(log[5]) /\ log[5].status = 429

C3_No429RetryWithoutHeader ==
    (Len(log) >= 2 /\ log[2].status = 429 /\ log[2].retryAfter = NoHeader) =>
        /\ pc = "thrown"
        /\ Len(log) = 2
        /\ Len(Requests) = 1
        /\ Len(Delays) = 0
        /\ error.name = "Error"
        /\ error.message = FailureMessage(429, log[2].statusText)

\* C3 witness: the call has failed on a first 429 that has no Retry-After.
C3_Witness ==
    /\ Len(log) = 2
    /\ log[2].status = 429
    /\ log[2].retryAfter = NoHeader
    /\ pc = "thrown"

\* the response at position k of the log is a 429 that a successful retry
\* followed
SuccessfullyRetried(k) ==
    /\ log[k].status = 429
    /\ \E j \in (k + 1)..Len(log) : IsResponse(log[j]) /\ Ok(log[j])

\* C4 as stated: every non-2xx response other than a 429 followed by a
\* successful retry makes the call fail with an error that carries that
\* response's status and status text; a first response that is non-2xx
\* and not a 429 is never retried.
C4_EveryFailedResponseIsCarried ==
    Finished =>
        \A k \in 1..Len(log) :
            (IsResponse(log[k]) /\ ~Ok(log[k]) /\ ~SuccessfullyRetried(k)) =>
                /\ pc = "thrown"
                /\ error.message = FailureMessage(log[k].status, log[k].statusText)
                /\ (k = 2 /\ log[k].status # 429) => Len(Requests) = 1

\* the response at position k of the log is a first 429 with a Retry-After
\* value: the one response the code answers with a retry
Retried(k) == k = 2 /\ log[k].status = 429 /\ Truthy(log[k].retryAfter)

\* C4 amended: every non-2xx response other than a first 429 with
\* Retry-After (which is retried, whatever the retry's outcome) ends the
\* call at once with an error that carries that response's status and
\* status text; after a retry the error is the one of the retry's outcome.
\* A first response that is non-2xx and not a 429 is never retried.
C4_LastFailedResponseIsCarried ==
    \A k \in 1..Len(log) :
        (IsResponse(log[k]) /\ ~Ok(log[k]) /\ ~Retried(k)) =>
            /\ pc = "thrown"
            /\ k = Len(log)
            /\ error.name = "Error"
            /\ error.message = FailureMessage(log[k].status, log[k].statusText)
            /\ (k = 2 /\ log[k].status # 429) => Len(Requests) = 1

\* C4 witness: a first 429 was retried and the retry's 503 has ended the
\* call, with the error of the 503.
C4_Witness ==
    /\ pc = "thrown"
    /\ Len(log) = 5
    /\ log[2].status = 429
    /\ log[5].status = 503
    /\ error.message = "API request failed: 503 Service Unavailable"

LastEvent == log[Len(log)]

\* C5: when the final response is 2xx and its body has no choices list or
\* an empty one, the call fails with 'No response from API' and returns no
\* text.
C5_NoChoicesFails ==
    (/\ Len(log) >= 2
     /\ LastEvent.kind = "body"
     /\ ~LastEvent.hasChoices \/ LastEvent.choices = <<>>) =>
        /\ Ok(log[Len(log) - 1])
        /\ pc = "thrown"
        /\ error = [name |-> "Error", message |-> "No response from API"]
        /\ result = NoResult

\* C5 witness: a 2xx body with an empty choices list has ended the call.
C5_Witness ==
    /\ Len(log) >= 2
    /\ LastEvent.kind = "body"
    /\ LastEvent.hasChoices
    /\ LastEvent.choices = <<>>
    /\ pc = "thrown"

\* C6: a call ends in one of two ways. Either it returns, and then the
\* last response was 2xx, its body has a choice whose content is a string,
\* and the text returned is cleanResponse(processThinkingModelResponse(.))
\* of the first choice's content; or it throws, and returns no text. Until
\* then it has neither returned nor thrown, and can take a step.
C6_AllOrNothing ==
    /\ pc = "returned" =>
          /\ result.returned
          /\ error = NoError
          /\ Len(log) >= 3
          /\ IsResponse(log[Len(log) - 1]) /\ Ok(log[Len(log) - 1])
          /\ LastEvent.kind = "body"
          /\ LastEvent.hasChoices /\ Len(LastEvent.choices) >= 1
          /\ LastEvent.choices[1].t = "string"
          /\ result.text =
                 cleanResponse(processThinkingModelResponse(LastEvent.choices[1].v))
    /\ pc = "thrown" => result = NoResult /\ error # NoError
    /\ ~Finished => result = NoResult /\ error = NoError /\ ENABLED Next

\* C6 witness: a call has returned the normalized text of a response that
\* came with a thinking segment and an unwanted prefix.
C6_Witness ==
    /\ pc = "returned"
    /\ LastEvent.choices[1].v # result.text
    /\ result.text = "Actually do X"

(***************************************************************************)
(* Properties of the response normalizer, checked under SpecNormalize      *)
(***************************************************************************)

\* s holds a run of three or more newlines
HasNewlineRun(s) == \E i \in 1..Len(s) : StartsWithAt(s, i, "\n\n\n")

\* s holds a <thinking> marker with a </thinking> marker after it
HasMarkerPair(s) ==
    \E i \in 1..Len(s) :
        /\ StartsWithAt(s, i, "<thinking>")
        /\ \E j \in (i + Len("<thinking>"))..Len(s) : StartsWithAt(s, j, "</thinking>")

\* C7: for a non-empty model output the normalizer never returns the empty
\* string; when scrubbing leaves nothing it returns the pre-scrub text.
C7_NormalizeNeverEmpty ==
    (phase = "called" /\ text # "") => out.value # ""

\* C8: when the model output holds a well-formed <thinking>...</thinking>
\* segment, the normalized output holds no <thinking>...</thinking> marker
\* pair and no run of three or more newlines.
C8_ThinkingRemovalTotal ==
    (phase = "called" /\ HasMarkerPair(text)) =>
        /\ ~HasMarkerPair(out.value)
        /\ ~HasNewlineRun(out.value)

(***************************************************************************)
(* Properties of detectPromptStructure, checked under SpecDetect           *)
(***************************************************************************)

Kinds == {"xml", "json", "markdown", "role-based", "plain"}

\* C9: for every input string detectPromptStructure returns (it does not
\* throw) exactly one kind of the five, and that kind is the one of the
\* first rule that matches in the order XML, JSON, Markdown, role-based,
\* plain; preserveFormat is false for plain only.
C9_DetectTotalFirstMatchWins ==
    phase = "called" =>
        /\ out.type \in Kinds
        /\ out.type = "xml" <=> MatchesXml(text)
        /\ out.type = "json" <=> ~MatchesXml(text) /\ JsonParses(text)
        /\ out.type = "markdown" <=>
              ~MatchesXml(text) /\ ~JsonParses(text) /\ MatchesMarkdown(text)
        /\ out.type = "role-based" <=>
              /\ ~MatchesXml(text) /\ ~JsonParses(text) /\ ~MatchesMarkdown(text)
              /\ MatchesRole(text)
        /\ out.type = "plain" <=>
              /\ ~MatchesXml(text) /\ ~JsonParses(text) /\ ~MatchesMarkdown(text)
              /\ ~MatchesRole(text)
        /\ out.preserveFormat <=> out.type # "plain"

\* C9 witness: a text that matches both the JSON and the Markdown rule has
\* been classified, as json.
C9_Witness ==
    /\ phase = "called"
    /\ JsonParses(text) /\ MatchesMarkdown(text) /\ ~MatchesXml(text)
    /\ out.type = "json"

\* some marker starts, ignoring case, at position i of s
MarkerAt(s, i) ==
    \E m \in {"YOU ARE", "SYSTEM:", "USER:", "ASSISTANT:"} :
        /\ i + Len(m) - 1 <= Len(s)
        /\ \A k \in 1..Len(m) : Canon(Ch(s, i + k - 1)) = Ch(m, k)

\* a line of s starts at i: the text's start, or after \n, \r or U+2028
BeginsLine(s, i) == i = 1 \/ Ch(s, i - 1) = "\n" \/ Ch(s, i - 1) = "\r" \/ Ch(s, i - 1) = LS

EarlierRuleMatches(s) == MatchesXml(s) \/ JsonParses(s) \/ MatchesMarkdown(s)

\* C10 as stated: a text is classified role-based exactly when no earlier
\* rule matches and the text as a whole begins with a marker.
C10_RoleOnlyAtTextStart ==
    phase = "called" =>
        (out.type = "role-based" <=> ~EarlierRuleMatches(text) /\ MarkerAt(text, 1))

\* C10 amended: a text is classified role-based exactly when no earlier
\* rule matches and some line of the text (the first one or a later one)
\* begins, ignoring case, with one of the four markers.
C10_RoleAtAnyLineStart ==
    phase = "called" =>
        (out.type = "role-based" <=>
            /\ ~EarlierRuleMatches(text)
            /\ \E i \in 1..Len(text) : BeginsLine(text, i) /\ MarkerAt(text, i))

\* C10 witness: a text whose only marker starts a later line has been
\* classified, as role-based.
C10_Witness ==
    /\ phase = "called"
    /\ ~MarkerAt(text, 1)
    /\ \E i \in 2..Len(text) : BeginsLine(text, i) /\ MarkerAt(text, i)
    /\ out.type = "role-based"

(***************************************************************************)
(* Properties of the request enhancePrompt sends, checked under Spec       *)
(***************************************************************************)

StructuredKinds == {"xml", "json", "markdown", "role-based"}

\* the kind of the sanitized prompt of the call under way
SanitizedKind == detectPromptStructure(sanitizeInput(prompt)).type

\* C11: in every request sent, the system message starts with the
\* structured template exactly when the sanitized prompt classifies as
\* xml, json, markdown or role-based, and with the free-form template
\* exactly when it classifies as plain, whatever the context and the model.
C11_TemplateFollowsPreserveFormat ==
    \A k \in 1..Len(log) :
        IsRequest(log[k]) =>
            /\ StartsWithAt(log[k].system, 1, STRUCTURED_SYSTEM_PROMPT)
                   <=> SanitizedKind \in StructuredKinds
            /\ StartsWithAt(log[k].system, 1, SYSTEM_PROMPT)
                   <=> SanitizedKind = "plain"
            /\ structure.preserveFormat <=> SanitizedKind \in StructuredKinds

\* C11 witness: a retry of a markdown prompt was sent with the structured
\* template although no context was passed.
C11_Witness ==
    /\ Len(Requests) = 2
    /\ SanitizedKind = "markdown"
    /\ conversationContext = ""
    /\ log[4].system = STRUCTURED_SYSTEM_PROMPT

\* C14: the addendum is appended to the selected template exactly when the
\* context passed to enhancePrompt is non-empty, and then it holds the
\* context text as passed; without a context the system message is the
\* bare template.
C14_AddendumIffContext ==
    \A k \in 1..Len(log) :
        IsRequest(log[k]) =>
            LET template == IF SanitizedKind = "plain"
                            THEN SYSTEM_PROMPT ELSE STRUCTURED_SYSTEM_PROMPT
                system == log[k].system
                rest == SubSeq(system, Len(template) + 1, Len(system))
            IN  /\ StartsWithAt(system, 1, template)
                /\ conversationContext = "" <=> rest = ""
                /\ conversationContext # "" =>
                      /\ StartsWithAt(rest, 1, "\n\nCONTEXTUAL ENHANCEMENT MODE ACTIVATED")
                      /\ \E i \in 1..Len(rest) :
                            StartsWithAt(rest, i, "CONVERSATION CONTEXT:\n" \o conversationContext \o "\n")

\* C14 witness: a request was sent for a call with a context, and its
\* system message is longer than the template.
C14_Witness ==
    /\ pc = "fetch1"
    /\ conversationContext = "user: we use React"
    /\ Len(log[1].system) > Len(STRUCTURED_SYSTEM_PROMPT) + Len(conversationContext)

\* the events of a call come in the order request, response, then either
\* the body of a 2xx response or the sleep and the retry after a 429
LogInOrder ==
    \A k \in 1..Len(log) :
        /\ IsRequest(log[k]) => k = 1 \/ IsDelay(log[k - 1])
        /\ IsResponse(log[k]) => k > 1 /\ IsRequest(log[k - 1])
        /\ IsDelay(log[k]) => k > 1 /\ IsResponse(log[k - 1]) /\ log[k - 1].status = 429
        /\ log[k].kind = "body" => k > 1 /\ IsResponse(log[k - 1]) /\ Ok(log[k - 1])

\* C18: the steps of a call run in the order sanitize, detect, select
\* template, invoke, normalize: every request sent carries the sanitized
\* prompt as its user message and the template of the structure detected
\* on the sanitized prompt, nothing is sent before both are computed, the
\* only sleep is the one before the retry, and a text is returned only
\* after the body of a 2xx response has arrived.
C18_StepsInOrder ==
    /\ LogInOrder
    /\ \A k \in 1..Len(log) :
          IsRequest(log[k]) =>
              /\ sanitizedPrompt = sanitizeInput(prompt)
              /\ structure = detectPromptStructure(sanitizedPrompt)
              /\ log[k].user = sanitizedPrompt
              /\ StartsWithAt(log[k].system, 1,
                     IF structure.preserveFormat
                     THEN STRUCTURED_SYSTEM_PROMPT ELSE SYSTEM_PROMPT)
    /\ pc \in {"new", "ready"} => log = <<>> /\ structure = NoStructure
    /\ result.returned =>
          /\ Len(log) >= 3
          /\ LastEvent.kind = "body"
          /\ Ok(log[Len(log) - 1])
          /\ Len(Requests) \in {1, 2}

\* C18 witness: a call whose prompt lost a tag to sanitization, and so
\* became role-based, has returned after a sleep and a retry.
C18_Witness ==
    /\ pc = "returned"
    /\ prompt = "<b>User: hi"
    /\ log[1].user = "User: hi"
    /\ structure.type = "role-based"
    /\ Len(Delays) = 1

(***************************************************************************)
(* Property of calculateMaxTokens, checked under SpecTokens                *)
(***************************************************************************)

\* C15: for a sanitized prompt of n characters the max_tokens sent is
\* min(max(500, 3 * ceil(n / 4)), 4000), a value from 500 to 4000.
C15_MaxTokensFormula ==
    phase = "called" =>
        LET n == Len(text)
            ceil == IF n % 4 = 0 THEN n \div 4 ELSE (n \div 4) + 1
            estimate == 3 * ceil
        IN  /\ out.value = IF estimate <= 500 THEN 500
                           ELSE IF estimate >= 4000 THEN 4000
                           ELSE estimate
            /\ out.value >= 500
            /\ out.value <= 4000

\* C15 witness: a prompt whose length is no multiple of 4 got a budget
\* strictly between the floor and the ceiling.
C15_Witness ==
    /\ phase = "called"
    /\ Len(text) % 4 # 0
    /\ out.value > 500
    /\ out.value < 4000

(***************************************************************************)
(* Properties of sanitizeInput, checked under SpecSanitize                 *)
(***************************************************************************)

\* s holds a script segment: "<script" in any case, the first ">" after
\* it, and a "</script>" in any case somewhere after that
HasScriptSegment(s) ==
    \E i \in 1..Len(s) :
        /\ StartsWithAtCI(s, i, "<script")
        /\ \E j \in (i + 7)..Len(s) :
              /\ Ch(s, j) = ">"
              /\ \A m \in (i + 7)..(j - 1) : Ch(s, m) # ">"
              /\ \E k \in (j + 1)..Len(s) : StartsWithAtCI(s, k, "</script>")

\* C16: for a raw prompt that classifies as xml, the output of
\* sanitizeInput holds no script segment.
C16_NoScriptSegmentLeft ==
    (phase = "called" /\ out.kind = "xml") => ~HasScriptSegment(out.value)

\* position k of s lies in a tag-like token: a "<" at or before k with no
\* ">" between it and k, and a ">" at or after k
InTagToken(s, k) ==
    /\ \E j \in 1..k : Ch(s, j) = "<" /\ \A m \in j..(k - 1) : Ch(s, m) # ">"
    /\ \E m \in k..Len(s) : Ch(s, m) = ">"

\* the characters of s from position k on that lie in no tag-like token
RECURSIVE OutsideTokens(_, _)
OutsideTokens(s, k) ==
    IF k > Len(s) THEN ""
    ELSE (IF InTagToken(s, k) THEN "" ELSE Ch(s, k)) \o OutsideTokens(s, k + 1)

\* C17: for a raw prompt that does not classify as xml, the output of
\* sanitizeInput holds no "<" with a ">" after it, and is the input's
\* characters outside its tag-like tokens, in their order.
C17_NoTagTokenLeft ==
    (phase = "called" /\ out.kind # "xml") =>
        /\ ~ \E i \in 1..Len(out.value) :
               /\ Ch(out.value, i) = "<"
               /\ \E j \in (i + 1)..Len(out.value) : Ch(out.value, j) = ">"
        /\ out.value = OutsideTokens(text, 1)

\* C17 witness: a prompt that is not xml lost tag-like tokens and kept a
\* ">" and a later "<" that form no token.
C17_Witness ==
    /\ phase = "called"
    /\ out.kind # "xml"
    /\ text = "<script>x><x><"
    /\ out.value = "x><"

(***************************************************************************)
(* Properties of the context the servers build, checked under SpecContext  *)
(***************************************************************************)

Contains(s, lit) == \E i \in 1..Len(s) : StartsWithAt(s, i, lit)

\* how many turns are retained, and the first retained turn
Retained == IF Len(messages) < 6 THEN Len(messages) ELSE 6
FirstRetained == Len(messages) - Retained + 1

\* turns k to the last, each as role: content, a blank line between them
RECURSIVE TurnsFrom(_)
TurnsFrom(k) ==
    IF k > Len(messages) THEN ""
    ELSE messages[k].role \o ": " \o messages[k].content
             \o (IF k < Len(messages) THEN "\n\n" ELSE "")
             \o TurnsFrom(k + 1)

ContextHeading == "Recent conversation:\n"

\* C12: for a list of prior turns of any length, the context holds exactly
\* the last min(6, length) turns, each as role: content, oldest of them
\* first, and no earlier turn.
C12_LastSixTurns ==
    (phase = "called" /\ Len(messages) > 0) =>
        /\ StartsWithAt(out.value, Len(ContextHeading) + 1, TurnsFrom(FirstRetained))
        /\ \A k \in 1..(FirstRetained - 1) :
              ~Contains(out.value, "t" \o ToString(k))
        /\ \A k \in FirstRetained..Len(messages) :
              Contains(out.value, messages[k].role \o ": t" \o ToString(k))

\* C12 witness: of eight turns the context holds the third but not the
\* second.
C12_Witness ==
    /\ phase = "called"
    /\ Len(messages) = 8
    /\ Contains(out.value, "t3")
    /\ ~Contains(out.value, "t2")

\* C13: with turns and a free text the context is the rendered turns
\* (under their heading), then the label Additional context: and the free
\* text; with turns only it ends after the turns and holds no label; with
\* no turns it is the free text, or empty.
C13_ContextComposition ==
    phase = "called" =>
        /\ (Len(messages) > 0 /\ text # "") =>
              out.value = ContextHeading \o TurnsFrom(FirstRetained)
                              \o "\n\nAdditional context: " \o text
        /\ (Len(messages) > 0 /\ text = "") =>
              /\ out.value = ContextHeading \o TurnsFrom(FirstRetained)
              /\ ~Contains(out.value, "Additional context")
        /\ Len(messages) = 0 => out.value = text

\* C13 witness: a context was built from two turns and a free text.
C13_Witness ==
    /\ phase = "called"
    /\ Len(messages) = 2
    /\ text = "we use React"
    /\ Contains(out.value, "t2\n\nAdditional context: we use React")

(***************************************************************************)
(* Properties of the servers, checked under SpecServer                     *)
(***************************************************************************)

\* the model a request asks for: the one it supplies, the default
\* when it supplies none
RequestedModel(a) ==
    IF a.model.present /\ a.model.value # "" THEN a.model.value ELSE DEFAULT_MODEL

\* the content of the last body call c received
LastContent(c) == c.got[Len(c.got)].choices[1].v

\* C19: for any interleaving of the requests under way, on the stdio
\* server too, every request sent to the provider, the retry included,
\* carries the model, the prompt and the context of the request that
\* issued it, and each caller is answered with the text derived from the
\* response to its own call.
C19_RequestsCarryOwnArguments ==
    \A i \in 1..Len(calls) :
        LET c == calls[i] IN
        /\ \A k \in 1..Len(c.sent) :
              /\ c.sent[k].model = RequestedModel(c.args)
              /\ c.sent[k].user = sanitizeInput(c.args.prompt)
              /\ c.args.context # "" => Contains(c.sent[k].system, c.args.context)
              /\ (c.args.context = "" /\ c.args.messages = <<>>) =>
                     c.sent[k].system \in {SYSTEM_PROMPT, STRUCTURED_SYSTEM_PROMPT}
        /\ c.reply.kind = "result" =>
              c.reply.text = cleanResponse(processThinkingModelResponse(LastContent(c)))

\* the answer names the missing key
IsConfigurationError(reply) ==
    /\ reply.kind = "error"
    /\ \/ Contains(reply.text, "OpenRouter API key not configured")
       \/ Contains(reply.text, "Please set OPENROUTER_API_KEY")

ReceiveAny == \E a \in ServerArgs : Receive(a)

\* C20: when the API key is not in the environment, every enhancement
\* request (a request that has its prompt) is answered with a
\* configuration error and sends nothing to the provider; no request is
\* left unanswered, and the server goes on taking requests.
C20_MissingKeyFailsEachRequest ==
    env = "" =>
        /\ \A i \in 1..Len(calls) :
              /\ calls[i].sent = <<>>
              /\ calls[i].pc = "done"
              /\ calls[i].reply.kind = "error"
              /\ calls[i].args.hasPrompt => IsConfigurationError(calls[i].reply)
        /\ Len(calls) < MaxRequests => ENABLED ReceiveAny

\* C20 witness: without a key, a second request with a prompt was answered
\* with a configuration error after a first one was.
C20_Witness ==
    /\ env = ""
    /\ Len(calls) = 2
    /\ calls[1].args.hasPrompt /\ IsConfigurationError(calls[1].reply)
    /\ calls[2].args.hasPrompt /\ IsConfigurationError(calls[2].reply)

(***************************************************************************)
(* The classification of the sanitized prompt, checked under SpecSanitize   *)
(***************************************************************************)

\* C29: when the sanitized prompt classifies as xml, the raw prompt
\* classified as xml too: stripping the tag-like tokens of a prompt that is
\* not xml never leaves a text that detectPromptStructure classifies as xml.
C29_XmlOnlyFromXml ==
    phase = "called" =>
        (detectPromptStructure(out.value).type = "xml" => out.kind = "xml")

\* C29 witness: a prompt that is not xml, with an opening fragment and two
\* closing tags, lost its tag-like tokens and what is left is not xml.
C29_Witness ==
    /\ phase = "called"
    /\ text = "<<scr</SCRIPT>ipt></SCRIPT>"
    /\ out.kind = "plain"
    /\ out.value = "ipt>"
    /\ detectPromptStructure(out.value).type = "plain"

(***************************************************************************)
(* The retry after a rate limit, checked under Spec                         *)
(***************************************************************************)

\* the call got a 429 with a usable Retry-After and then a 2xx on its retry
RetrySucceeded ==
    /\ Len(log) >= 5
    /\ IsResponse(log[2]) /\ log[2].status = 429 /\ Truthy(log[2].retryAfter)
    /\ IsResponse(log[5]) /\ Ok(log[5])

\* C28: when a 429 with Retry-After is followed by a 2xx retry, the retry
\* request is the first request again (same model, system message,
\* sanitized prompt and max_tokens), and the text enhancePrompt returns is
\* the normalized content of the first choice of the retry's body.
C28_RetryRepeatsRequestAndIsReturned ==
    RetrySucceeded =>
        /\ IsRequest(log[1]) /\ IsRequest(log[4])
        /\ log[4] = log[1]
        /\ log[4].model = client.model
        /\ log[4].system = log[1].system
        /\ log[4].user = sanitizedPrompt
        /\ log[4].max_tokens = calculateMaxTokens(sanitizedPrompt)
        /\ pc = "returned" =>
              /\ Len(log) = 6
              /\ log[6].kind = "body"
              /\ result.text = normalize(log[6].choices[1].v)

\* C28 witness: a prompt with a tag was rate limited, retried after the
\* delay, and the call returned the normalized first choice of the retry.
C28_Witness ==
    /\ RetrySucceeded
    /\ pc = "returned"
    /\ prompt = "<b>User: hi"
    /\ sanitizedPrompt = "User: hi"
    /\ log[6].choices[1].v
          = "<thinking>plan</thinking>\n\nHere is the enhanced prompt: Actually do X"
    /\ result.text = "Actually do X"

(***************************************************************************)
(* Properties of the scrubbing of prefixes, checked under SpecNormalize     *)
(***************************************************************************)

\* s begins with a match of a pattern of the unwanted-prefix list
BeginsWithUnwantedPrefix(s) ==
    \E n \in 1..Len(unwantedPrefixes) : MatchFrom(s, 1, unwantedPrefixes[n], 1) # 0

\* cleaned.trim() of cleanResponse's last line: empty when the fallback to
\* the pre-scrub text is taken
ScrubbedText(content) == Trim(RemoveSuffixes(PrefixLoop(Trim(content), 0), 1))

\* C24: the text the normalizer returns does not begin with a phrase of the
\* unwanted-prefix list, except when the empty-result fallback returned the
\* pre-scrub text.
C24_NoUnwantedPrefixLeft ==
    (phase = "called" /\ ScrubbedText(out.processed) # "") =>
        ~BeginsWithUnwantedPrefix(out.value)

(***************************************************************************)
(* The order of the scrubbing steps, checked under SpecClean                *)
(***************************************************************************)

\* the steps of a finished cleanResponse call: the passes over the prefix
\* list first, then the suffixes
StepKinds == [ k \in 1..Len(out.steps) |-> <<out.steps[k].step, out.steps[k].n>> ]

\* C25: cleanResponse applies the whole ordered prefix list followed by a
\* trim exactly three times, and only then each suffix of the ordered
\* suffix list exactly once: no prefix step comes after a suffix step, a
\* suffix is not tried again after a later suffix was removed, and the text
\* returned is the one these steps leave (or the content, when they leave
\* nothing).
C25_ThreePrefixPassesThenSuffixesOnce ==
    phase = "called" =>
        /\ StepKinds = << <<"prefixes", 0>>, <<"prefixes", 1>>, <<"prefixes", 2>>,
                          <<"suffix", 1>>, <<"suffix", 2>>, <<"suffix", 3>> >>
        /\ out.steps[1].before = Trim(text)
        /\ \A k \in 1..Len(out.steps) :
              /\ k > 1 => out.steps[k].before = out.steps[k - 1].after
              /\ out.steps[k].step = "prefixes" =>
                    out.steps[k].after = Trim(RemovePrefixes(out.steps[k].before, 1))
              /\ out.steps[k].step = "suffix" =>
                    out.steps[k].after
                        = RemoveSuffix(out.steps[k].before, unwantedSuffixes[out.steps[k].n])
        /\ out.value = (IF Trim(out.steps[6].after) = "" THEN text
                        ELSE Trim(out.steps[6].after))
        /\ out.value = cleanResponse(text)

\* C25 witness: each of the three passes removed one copy of a stacked
\* prefix, the first two suffixes found nothing, the third was removed.
C25_Witness ==
    /\ phase = "called"
    /\ text = "Enhanced prompt: Enhanced prompt: Enhanced prompt: x Hope this helps!"
    /\ \A k \in 1..3 : out.steps[k].after # out.steps[k].before
    /\ out.steps[3].after = "x Hope this helps!"
    /\ out.steps[4].after = out.steps[4].before
    /\ out.steps[6].after = "x"
    /\ out.value = "x"

(***************************************************************************)
(* Validation and the model of the outbound request, under SpecServer       *)
(***************************************************************************)

\* the answer tells that a required field is missing
IsValidationError(reply) ==
    /\ reply.kind = "error"
    /\ reply.code \in {"InvalidParams", "400", "500"}
    /\ Contains(reply.text, "Required") \/ Contains(reply.text, "required")
    /\ ~IsConfigurationError(reply)

\* C21: on every transport a request without its prompt field is answered
\* with a validation error, whether or not the key is set, and nothing is
\* sent to the provider for it.
C21_MissingPromptRejected ==
    \A i \in 1..Len(calls) :
        ~calls[i].args.hasPrompt =>
            /\ calls[i].pc = "done"
            /\ IsValidationError(calls[i].reply)
            /\ calls[i].sent = <<>>
            /\ calls[i].got = <<>>

\* C21 witness: with no key in the environment a request without prompt was
\* answered with the validation error, and the next request, which has its
\* prompt, with the configuration error.
C21_Witness ==
    /\ env = ""
    /\ Len(calls) = 2
    /\ ~calls[1].args.hasPrompt /\ IsValidationError(calls[1].reply)
    /\ calls[1].sent = <<>>
    /\ calls[2].args.hasPrompt /\ IsConfigurationError(calls[2].reply)

StepsOf(i) == calls[i].steps
HasStep(i, s) == \E k \in 1..Len(StepsOf(i)) : StepsOf(i)[k] = s

\* C22: for a POST /enhance whose enhancement_started is broadcast, that
\* broadcast comes before the pipeline is invoked; while the pipeline runs
\* nothing more is broadcast for it; and when the request is answered
\* exactly one of enhancement_completed (the pipeline resolved, the answer
\* is the success response) and error (the pipeline failed, the answer is
\* a 500) was broadcast after it.
C22_StartedThenExactlyOneOutcome ==
    \A i \in 1..Len(calls) :
        HasStep(i, "enhancement_started") =>
            /\ SubSeq(StepsOf(i), 1, 2) = <<"enhancement_started", "invoke">>
            /\ calls[i].pc = "pipeline" =>
                   StepsOf(i) = <<"enhancement_started", "invoke">>
            /\ calls[i].pc = "done" =>
                   \/ /\ StepsOf(i) = <<"enhancement_started", "invoke",
                                        "enhancement_completed", "respond">>
                      /\ calls[i].reply.kind = "result"
                      /\ calls[i].reply.code = "200"
                   \/ /\ StepsOf(i) = <<"enhancement_started", "invoke", "error", "respond">>
                      /\ calls[i].reply.kind = "error"
                      /\ calls[i].reply.code = "500"

\* C22 witness: a subscriber that stayed connected got the started event
\* and then the error event of a request whose pipeline failed, and no
\* completed event; the request was answered with a 500.
C22_Witness ==
    /\ Len(calls) = 1
    /\ calls[1].reply = [kind |-> "error", code |-> "500", text |-> "No response from API"]
    /\ Len(conns) >= 1
    /\ conns[1].open
    /\ conns[1].events = <<Event("connected", 0), Event("enhancement_started", 1),
                           Event("error", 1)>>

\* C26: after any connects and closes the clients list holds exactly the
\* connections that are open, each once, also when two connections got the
\* same client id.
C26_ClientsAreTheOpenConnections ==
    LET listed == { clients[k].response : k \in DOMAIN clients }
        open == { c \in DOMAIN conns : conns[c].open }
    IN  /\ listed = open
        /\ Len(clients) = Cardinality(open)

\* C27: a subscriber that got the enhancement_completed or the error event
\* of a request got the enhancement_started event of that request before.
C27_OutcomeOnlyAfterStarted ==
    \A c \in DOMAIN conns :
        \A k \in 1..Len(conns[c].events) :
            conns[c].events[k].type \in {"enhancement_completed", "error"} =>
                \E j \in 1..(k - 1) :
                    conns[c].events[j]
                        = Event("enhancement_started", conns[c].events[k].req)

(***************************************************************************)
(* Properties of the standalone remote-MCP server, under SpecMessages       *)
(***************************************************************************)

IsEnhanceCall(m) == m.method = "tools/call" /\ m.name = "enhance_prompt"

\* C30: a POST /messages is answered at most once, and when its handling is
\* over exactly once, with the id of its message: with a result for
\* tools/list and for an enhance_prompt call that succeeded, with the error
\* -32603 for an enhance_prompt call whose handling failed, and with the
\* error -32601 for any other message.
C30_OneResponseWithRequestId ==
    \A i \in 1..Len(calls) :
        LET c == calls[i]
            m == c.message
        IN  /\ Len(c.responses) <= 1
            /\ c.pc = "pipeline" => (c.responses = <<>> /\ IsEnhanceCall(m))
            /\ c.pc = "done" =>
                  /\ Len(c.responses) = 1
                  /\ c.responses[1].id = m.id
                  /\ m.method = "tools/list" => c.responses[1].kind = "result"
                  /\ (IsEnhanceCall(m) /\ c.outcome = "enhanced") =>
                         c.responses[1].kind = "result"
                  /\ (IsEnhanceCall(m) /\ c.outcome # "enhanced") =>
                         (c.responses[1].kind = "error" /\ c.responses[1].code = -32603)
                  /\ (m.method # "tools/list" /\ ~IsEnhanceCall(m)) =>
                         (c.responses[1].kind = "error" /\ c.responses[1].code = -32601)

\* C30 witness: two enhance_prompt calls were under way together; the one
\* with id 2 was answered first, with its result, then the one with id 1,
\* with the error -32603.
C30_Witness ==
    /\ Len(calls) = 2
    /\ calls[1].message.id = Arg("1") /\ calls[2].message.id = Arg("2")
    /\ calls[1].outcome = "failed" /\ calls[2].outcome = "enhanced"
    /\ calls[1].responses
         = <<[id |-> Arg("1"), kind |-> "error", code |-> -32603,
              text |-> "MCP error -32603: Enhancement failed: No response from API"]>>
    /\ calls[2].responses
         = <<[id |-> Arg("2"), kind |-> "result", code |-> 0, text |-> "Actually do X"]>>

====
